---- MODULE Spec2Model ----
(***************************************************************************)
(* Model of the dynamic causal-effect estimation core:                     *)
(*   - src/src/analysis/11_ecm.py        (cointegration / ECM pipeline)    *)
(*   - src/src/analysis/12_irf_local_projections.py (local projections)    *)
(*   - src/src/models/its_levels.py      (levels / dynamics engine)        *)
(*                                                                         *)
(* Floating-point values are records [k, n, d]: k = "num" is the rational  *)
(* n/d (d > 0), k = "nan" is NaN, k = "ninf"/"pinf" are the infinities.    *)
(* Library fits (OLS, ADF, ARIMA) are environment choices: the estimate is *)
(* drawn from a small set, the control flow around it is the code's.       *)
(***************************************************************************)
EXTENDS Integers, Sequences, FiniteSets, TLC

VARIABLES
    panel,          \* the input panel: row count, optional columns, missing cell
    ecm_pc,         \* position of 11_ecm.main
    ecm_in,         \* command-line arguments of 11_ecm.main
    df_cols,        \* columns of df after load_core_panel
    eg_p,           \* full-sample Engle-Granger p-value
    resid_idx,      \* index labels carrying a long-run residual
    ecm_summary,    \* baseline ECM record (a dict: keys may be missing)
    ecm_regs,       \* right-hand side of the last ECM formula built (baseline)
    present_events, \* event columns found in df_ev
    eg_p_ev,        \* Engle-Granger p-value, event-control variant
    resid_idx_ev,   \* residual labels, event-control variant
    ecm_ev,         \* event-control ECM record
    ecm_regs_ev,    \* right-hand side of the ECM formula, event-control variant
    ecm_exc,        \* exception that ended main ("none" while running)
    joh,            \* rows of the frame returned by johansen_tests
    ecm_diag,       \* the residual-diagnostics step: was the ECM refitted, on how many rows
    irf_pc,         \* position of compute_irfs / compute_cumulative
    irf_in,         \* arguments of compute_irfs: H, with_mbb, use_event_controls
    df_prep,        \* columns of the frame returned by prepare_frame
    irf_extra,      \* event controls handed to horizon_regression
    hac_base,       \* base bandwidth taken from the h = 0 fit
    irf_h,          \* horizon the sweep is about to fit
    irf_rows,       \* per-horizon results collected so far
    irf_summary,    \* the summary returned by compute_irfs
    irf_cum,        \* rows returned by compute_cumulative
    irf_exc,        \* exception that ended compute_irfs ("none" otherwise)
    its_pc,         \* position of the script driving an ITSLevelsEstimator
    its_in,         \* the methods the script calls and their arguments
    its_step,       \* index of the next call of the script
    its_data,       \* columns of self.data
    its_results,    \* self.results (a dict)
    its_diag,       \* self.diagnostics: diagnostic name -> the result it was computed for
    its_grid,       \* rows collected by estimate_arma_grid
    its_cell,       \* (p, q) cell estimate_arma_grid is about to fit
    its_exc,        \* exception that ended the script ("none" otherwise)
    variant_pc,     \* position of the estimate_ecm call of 11b_demand_factor_variants
    variant_out,    \* what that call built: rows, ECT_lag1 attachment, sample sizes
    mbb_pc,         \* position of the script calling moving_block_bootstrap_irf
    mbb_in,         \* the horizons of the calls, B, random_state, degenerate rows
    mbb_call,       \* index of the call in progress
    mbb_rng,        \* numbers drawn so far from the generator of the call
    mbb_b,          \* replication the loop is about to run
    mbb_betas,      \* the betas array filled so far
    mbb_starts,     \* block starts drawn so far in the call
    mbb_indices,    \* row positions of the resample of the last replication
    mbb_outs,       \* what each finished call drew and returned
    bw_pc,          \* position of the pair of fits whose bandwidths are compared
    bw_in,          \* their sample sizes n1 <= n2
    bw_out,         \* the automatic bandwidths the two fits use
    cum_pc,         \* position of the compute_cumulative call on a given summary
    cum_in,         \* the summary handed to compute_cumulative
    cum_out         \* the cumulative bounds it computed, one record per H

ecmVars == <<ecm_pc, ecm_in, df_cols, eg_p, resid_idx, ecm_summary, ecm_regs,
             present_events, eg_p_ev, resid_idx_ev, ecm_ev, ecm_regs_ev, ecm_exc, joh,
             ecm_diag>>

irfVars == <<irf_pc, irf_in, df_prep, irf_extra, hac_base, irf_h, irf_rows,
             irf_summary, irf_cum, irf_exc>>

itsVars == <<its_pc, its_in, its_step, its_data, its_results, its_diag, its_grid,
             its_cell, its_exc>>

variantVars == <<variant_pc, variant_out>>

\* the components other than the cointegration main, the local projections
\* and the levels engine
mbbVars == <<mbb_pc, mbb_in, mbb_call, mbb_rng, mbb_b, mbb_betas, mbb_starts,
            mbb_indices, mbb_outs>>

bwVars == <<bw_pc, bw_in, bw_out>>

cumVars == <<cum_pc, cum_in, cum_out>>

extVars == <<variantVars, mbbVars, bwVars, cumVars>>

vars == <<panel, ecmVars, irfVars, itsVars, extVars>>

----------------------------------------------------------------------------
(* Bounds of the model *)

\* panels have 0 rows or MinEcmRows-RowSlack .. MinEcmRows+RowSlack rows
RowSlack == 3
\* the one missing A_t_clean cell, when there is one, is at a row <= MaxMissPos
MaxMissPos == 2
\* the panel carries at most this many of the candidate event columns
MaxEvCols == 1
\* local-projection panels have at most MaxIrfRows rows
MaxIrfRows == 13
\* largest horizon H of a sweep
MaxH == 7
\* the estimates a fit returns are one of MaxDgp + 1 profiles of the data
MaxDgp == 1
\* largest max_p handed to estimate_arma_grid
MaxP == 1
\* sample sizes of the fits whose automatic bandwidths are compared
MaxSample == 120
\* a bootstrap sample fails to fit when it begins in the first
\* 0 .. MaxDegenerate rows of the frame
MaxDegenerate == 2
\* the panel starts MergeRow days before the Merge and DencunRow days before
\* Dencun
MergeRow == 4
DencunRow == 8
\* a summary handed to compute_cumulative has the horizons 0 .. MaxCumH
MaxCumH == 1

(* Program constants *)

\* 11_ecm.py:278  "if len(use) < 30"
MinEcmRows == 30
\* 11_ecm.py:290  "bw = min(7, ...)"
MaxEcmBw == 7
\* 11_ecm.py:326  "if len(sub) < 50"
MinJohansenRows == 50
\* 12_irf_local_projections.py:216  "max(30, int(0.5 * B))"
MinReplications == 30
\* 11b_demand_factor_variants.py:237  "if len(ecm_data) < 50"
MinVariantRows == 50

----------------------------------------------------------------------------
(* Floating-point values *)

RECURSIVE GCD(_, _)
GCD(a, b) == IF b = 0 THEN a ELSE GCD(b, a % b)
Abs(a) == IF a < 0 THEN -a ELSE a

\* the rational n/d (d > 0) in lowest terms, so that equal values are equal records
Rat(n, d) ==
    LET g == GCD(Abs(n), d)
    IN  [k |-> "num", n |-> n \div g, d |-> d \div g]
Int2F(n) == Rat(n, 1)
NaN == [k |-> "nan", n |-> 0, d |-> 1]
NegInf == [k |-> "ninf", n |-> 0, d |-> 1]
PosInf == [k |-> "pinf", n |-> 0, d |-> 1]

isnan(x) == x.k = "nan"
isfinite(x) == x.k = "num"

\* x < y as IEEE comparison: false when either side is NaN
FLess(x, y) ==
    /\ ~isnan(x) /\ ~isnan(y)
    /\ \/ x.k = "ninf" /\ y.k # "ninf"
       \/ y.k = "pinf" /\ x.k # "pinf"
       \/ x.k = "num" /\ y.k = "num" /\ x.n * y.d < y.n * x.d

FGreater(x, y) == FLess(y, x)

\* 1 + x
OnePlus(x) == IF x.k = "num" THEN Rat(x.n + x.d, x.d) ELSE x

\* a / b for float64 operands (numpy: division by zero gives an infinity or NaN)
FDiv(a, b) ==
    IF isnan(a) \/ isnan(b) THEN NaN
    ELSE IF a.k # "num" THEN NaN
    ELSE IF b.k # "num" THEN Rat(0, 1)
    ELSE IF b.n = 0
         THEN (IF a.n < 0 THEN NegInf ELSE IF a.n > 0 THEN PosInf ELSE NaN)
    ELSE IF b.n > 0 THEN Rat(a.n * b.d, a.d * b.n)
    ELSE Rat(-(a.n * b.d), -(a.d * b.n))

\* np.log on the grid of quarters, in thousandths (ln(m/4) * 1000, rounded)
LnQuarter(m) ==
    CASE m = 1 -> -1386 [] m = 2 -> -693 [] m = 3 -> -288 [] m = 4 -> 0
      [] m = 5 -> 223   [] m = 6 -> 405  [] m = 7 -> 560  [] m = 8 -> 693
      [] m = 10 -> 916  [] m = 12 -> 1099

\* np.log(x) for x > 0 a multiple of 1/4
NpLog(x) == Rat(LnQuarter((x.n * 4) \div x.d), 1000)

LogHalf == Rat(-693, 1000)

----------------------------------------------------------------------------
(* Automatic HAC bandwidth int(4 * (n/100) ** (2/9)): the largest b with     *)
(* (b/4)^9 <= (n/100)^2, i.e. b^9 * 625 <= 16384 * n^2 (exact for n < 273).  *)

Pow9(b) == b * b * b * b * b * b * b * b * b

\* the rule applied to n modulo 100
AutoBandwidthWrapped(n) ==
    CHOOSE b \in 0..4 :
        /\ Pow9(b) * 625 <= 16384 * (n % 100) * (n % 100)
        /\ (b = 4 \/ Pow9(b + 1) * 625 > 16384 * (n % 100) * (n % 100))

AutoBandwidth(n) ==
    CHOOSE b \in 0..4 :
        /\ Pow9(b) * 625 <= 16384 * n * n
        /\ (b = 4 \/ Pow9(b + 1) * 625 > 16384 * n * n)

Min(a, b) == IF a < b THEN a ELSE b
Max(a, b) == IF a > b THEN a ELSE b

----------------------------------------------------------------------------
(* The panel *)

\* candidate_events of 11_ecm.main
EcmCandidateEvents ==
    {"shock_china_ban", "shock_otherside_mint", "shock_terra_luna",
     "shock_ftx_collapse", "shock_usdc_depeg", "shock_any",
     "airdrop_day", "outage_day"}

\* columns returned by build_targeted_event_dummies besides 'date'
TargetedEventCols == {"airdrop_day", "outage_day"}

\* candidate_events of compute_irfs
IrfCandidateEvents ==
    {"shock_china_ban", "shock_otherside_mint", "shock_terra_luna",
     "shock_ftx_collapse", "shock_usdc_depeg", "any_airdrop_d0",
     "any_outage_d0", "base_onchain_summer_d0"}

\* columns returned by build_event_dummies_from_registry besides 'date'
RegistryCols ==
    {"any_airdrop_d0", "optimism_airdrop_d0", "arbitrum_airdrop_d0",
     "zksync_airdrop_d0", "base_onchain_summer_d0", "any_outage_d0"}

Rows(N) == 0 .. (N - 1)

EventSubsets(candidates) ==
    {S \in SUBSET candidates : Cardinality(S) <= MaxEvCols}

\* regime: how the panel carries regime_post_merge / regime_post_dencun:
\* "absent", "exclusive" (post_merge is 0 again from Dencun on) or
\* "cumulative" (post_merge stays 1)
Panel(n, hd, m, ev, g) ==
    [N |-> n, hasD |-> hd, miss |-> m, evcols |-> ev, dgp |-> g, regime |-> "absent",
     extra |-> -1]

\* a panel that also carries S_t, a column no formula names, with one missing
\* cell at row t
ExtraNaNRow == 9
WithExtraNaN(p, t) == [p EXCEPT !.extra = t]

PanelRegimes == {"exclusive", "cumulative"}

WithRegime(p, r) == [p EXCEPT !.regime = r]

\* rows are consecutive dates from LONDON on: row t is of the Merge regime
\* from MergeRow on and of the Dencun regime from DencunRow on
Era(t) ==
    IF t < MergeRow THEN "london" ELSE IF t < DencunRow THEN "merge" ELSE "dencun"

\* the regime columns of the panel that are 1 at row t
PanelFlags(p, t) ==
    (IF Era(t) = "merge" \/ (p.regime = "cumulative" /\ Era(t) = "dencun")
     THEN {"regime_post_merge"} ELSE {})
        \cup (IF Era(t) = "dencun" THEN {"regime_post_dencun"} ELSE {})

RegimeCols(p) ==
    IF p.regime = "absent" THEN {} ELSE {"regime_post_merge", "regime_post_dencun"}

\* panels of the cointegration pipeline: N rows sorted by date, D_star present
\* or not, at most one missing A_t_clean cell (miss = -1: none); the panels
\* that carry candidate event columns are complete
EcmPanels ==
    { Panel(n, hd, m, {}, 0) :
        n \in {0} \cup ((MinEcmRows - RowSlack) .. (MinEcmRows + RowSlack)),
        hd \in BOOLEAN,
        m \in -1 .. MaxMissPos }
    \cup
    { Panel(MinEcmRows + 1, TRUE, -1, ev, 0) : ev \in EventSubsets(EcmCandidateEvents) }
    \cup
    { WithRegime(Panel(MinEcmRows + 1, TRUE, -1, {}, 0), r) : r \in PanelRegimes }
    \cup
    { Panel(n, hd, m, {}, 0) :
        n \in (MinJohansenRows - 1) .. (MinJohansenRows + 1),
        hd \in BOOLEAN,
        m \in -1 .. MaxMissPos }

\* panels of the local-projection component: complete panels of every size
\* up to MaxIrfRows, with or without D_star; the panels that carry candidate
\* event columns have MaxIrfRows rows
IrfPanels ==
    { Panel(n, hd, -1, {}, g) : n \in 0 .. MaxIrfRows, hd \in BOOLEAN, g \in 0 .. MaxDgp }
    \cup
    { Panel(MaxIrfRows, TRUE, -1, ev, 0) : ev \in EventSubsets(IrfCandidateEvents) }
    \cup
    { WithRegime(Panel(MaxIrfRows, TRUE, -1, {}, 0), r) : r \in PanelRegimes }

\* pandas merge(on='date'): a non-key column carried by both sides is renamed
\* <name>_x / <name>_y; the others are kept under their names
SuffixX(c) == c \o "_x"
SuffixY(c) == c \o "_y"
merge(left, right) ==
    LET both == left \cap right
    IN  ((left \cup right) \ both)
            \cup {SuffixX(c) : c \in both} \cup {SuffixY(c) : c \in both}

----------------------------------------------------------------------------
(* load_core_panel: columns and missing cells of df *)

BaseCols ==
    {"date", "log_base_fee", "A_t_clean", "is_weekend", "is_month_end",
     "regime_label", "d_log_base_fee", "d_A_t_clean", "D_star", "d_D_star"}

\* D_star is created as an all-NaN column when the panel lacks it (lines 105-109)
load_core_panel(p) == BaseCols \cup p.evcols \cup RegimeCols(p)

\* is the cell of level column c at row t missing?
LevelNaN(p, c, t) ==
    CASE c = "A_t_clean" -> t = p.miss
      [] c = "D_star"    -> ~p.hasD
      [] OTHER           -> FALSE

\* Series.diff(): row 0 and every row touching a missing level are NaN
DiffNaN(p, c, t) == t = 0 \/ LevelNaN(p, c, t) \/ LevelNaN(p, c, t - 1)

----------------------------------------------------------------------------
(* load_core_panel: values of the level columns and of their differences *)

\* Values are in thousandths.

\* lines 111-117 with the default winsor_pct = 0.005, in thousandths
WinsorPermille == 5

\* the panels the winsorized runs are analysed on
WinsorPanels == { Panel(MinEcmRows + 1, TRUE, m, {}, 0) : m \in -1 .. MaxMissPos }

\* the value of level column c at row t of the parquet file
RawLevel(c, t) ==
    CASE c = "log_base_fee" ->
            1000 * (IF t = 3 THEN -2 ELSE IF t = 5 THEN 9 ELSE (t % 4) + 1)
      [] c = "A_t_clean"    -> 1000 * ((t * t) % 7)
      [] OTHER              -> 1000 * ((2 * t) % 5)

\* rows at which column c has a value
PresentRows(p, c) == {t \in Rows(p.N) : ~LevelNaN(p, c, t)}

\* the k-th smallest (k = 0, 1, ...) value of column c
KthLevel(p, c, k) ==
    CHOOSE v \in {RawLevel(c, t) : t \in PresentRows(p, c)} :
        /\ Cardinality({t \in PresentRows(p, c) : RawLevel(c, t) < v}) <= k
        /\ k < Cardinality({t \in PresentRows(p, c) : RawLevel(c, t) <= v})

\* df[col].quantile(permille / 1000): linear interpolation between the order
\* statistics around position (n - 1) * permille / 1000, missing cells skipped
quantile(p, c, permille) ==
    LET pos == (Cardinality(PresentRows(p, c)) - 1) * permille
        i   == pos \div 1000
        f   == pos % 1000
        x   == KthLevel(p, c, i)
    IN  IF f = 0 THEN x ELSE x + (f * (KthLevel(p, c, i + 1) - x)) \div 1000

\* Series.clip(lower, upper)
clip(v, lower, upper) == IF v < lower THEN lower ELSE IF v > upper THEN upper ELSE v

\* the level column c of the frame load_core_panel returns (lines 111-117)
LoadedLevel(p, winsorized, c, t) ==
    IF winsorized
    THEN clip(RawLevel(c, t), quantile(p, c, WinsorPermille),
              quantile(p, c, 1000 - WinsorPermille))
    ELSE RawLevel(c, t)

\* the difference column of c that load_core_panel returns (lines 103-109):
\* it is computed before the levels are winsorized
LoadedDiff(c, t) == RawLevel(c, t) - RawLevel(c, t - 1)

\* the difference column of c in the frame of estimate_ecm: d_A_t_clean and
\* d_D_star are recomputed from the levels of the frame (lines 256-261),
\* d_log_base_fee is the column of the loader (lines 270-271)
FrameDiff(p, winsorized, c, t) ==
    IF c = "log_base_fee"
    THEN LoadedDiff(c, t)
    ELSE LoadedLevel(p, winsorized, c, t) - LoadedLevel(p, winsorized, c, t - 1)

----------------------------------------------------------------------------
(* engle_granger *)

\* rows kept by df[[y] + xvars].dropna()
EGUse(p) == {t \in Rows(p.N) : ~LevelNaN(p, "A_t_clean", t) /\ ~LevelNaN(p, "D_star", t)}

\* p-values adfuller may return (hundredths); NaN when it raises
PValues == {Rat(4, 100), Rat(5, 100), NaN}

\* engle_granger returns (stat, pval, resid); resid is labelled by the rows of use
engle_granger(p, pval) ==
    IF EGUse(p) = {} THEN [pval |-> NaN, resid |-> {}]
    ELSE [pval |-> pval, resid |-> EGUse(p)]

\* the gate with p <= 0.05 instead of p < 0.05
CointegratedInclusive(pv) == isfinite(pv) /\ ~FLess(Rat(5, 100), pv)

\* "np.isfinite(eg_p) and eg_p < 0.05" (lines 561, 668)
Cointegrated(pv) == isfinite(pv) /\ FLess(pv, Rat(5, 100))

----------------------------------------------------------------------------
(* estimate_ecm *)

\* frame['ECT'] = resid.reindex(frame.index); ECT_lag1 = ECT.shift(1)
ECTNaN(resid, t) == t \notin resid
ECTLag1NaN(resid, t) == t = 0 \/ ECTNaN(resid, t - 1)

\* use = frame.dropna(subset=['d_log_base_fee', 'ECT_lag1'] + terms)
EcmUse(p, resid) ==
    {t \in Rows(p.N) :
        /\ ~DiffNaN(p, "log_base_fee", t)
        /\ ~ECTLag1NaN(resid, t)
        /\ ~DiffNaN(p, "A_t_clean", t)
        /\ ~DiffNaN(p, "D_star", t)}

\* frame['d_log_base_fee_lag1'] = frame['d_log_base_fee'].shift(1) (line 272)
DLagNaN(p, t) == t = 0 \/ DiffNaN(p, "log_base_fee", t - 1)

\* rows of the design matrices: dmatrices(formula, data=use) drops the rows of
\* use with a missing cell in a variable of the formula (lines 274, 285)
EcmFitRows(p, resid) == {t \in EcmUse(p, resid) : ~DLagNaN(p, t)}

\* the right-hand side without the event controls
EcmRegressorsNoEvents(cols, event_controls) ==
    {"ECT_lag1"}
        \cup (IF "A_t_clean" \in cols THEN {"d_A_t_clean"} ELSE {})
        \cup (IF "D_star" \in cols THEN {"d_D_star"} ELSE {})
        \cup {"d_log_base_fee_lag1"}
        \cup {c \in {"is_weekend", "is_month_end"} : c \in cols}

\* formula right-hand side (lines 254-275)
EcmRegressors(cols, event_controls) ==
    {"ECT_lag1"}
        \cup (IF "A_t_clean" \in cols THEN {"d_A_t_clean"} ELSE {})
        \cup (IF "D_star" \in cols THEN {"d_D_star"} ELSE {})
        \cup {"d_log_base_fee_lag1"}
        \cup {c \in {"is_weekend", "is_month_end"} \cup (event_controls \cap cols) : c \in cols}

\* adjustment speeds and short-run effects the fit may return
PhiValues == {Rat(-8, 4), Rat(-4, 4), Rat(-2, 4), Rat(0, 4), Rat(2, 4)}
PsiValues == {Rat(0, 4), Rat(1, 4)}

\* half-life with the guard (1 + phi) >= 0: np.log(0) is -inf
HalfLifeWeakGuard(phi) ==
    IF ~isnan(phi) /\ ~FLess(OnePlus(phi), Int2F(0))
    THEN FDiv(LogHalf, IF OnePlus(phi).n > 0 THEN NpLog(OnePlus(phi)) ELSE NegInf)
    ELSE NaN

\* lines 302-309: half_life = np.log(0.5) / np.log(1 + phi) when 1 + phi > 0
HalfLife(phi) ==
    IF ~isnan(phi) /\ FGreater(OnePlus(phi), Int2F(0))
    THEN FDiv(LogHalf, NpLog(OnePlus(phi)))
    ELSE NaN

\* the 11b variant (11b_demand_factor_variants.py lines 257-263): the same
\* guard without the isnan test (a comparison with NaN is False)
HalfLifeVariant(phi) ==
    IF FGreater(OnePlus(phi), Int2F(0))
    THEN FDiv(LogHalf, NpLog(OnePlus(phi)))
    ELSE NaN

\* the record returned when fewer than MinEcmRows rows are usable (lines 278-283):
\* it has no 'bw' key
InsufficientRecord(n) ==
    [phi |-> NaN, phi_se |-> NaN, phi_p |-> NaN,
     psi |-> NaN, psi_se |-> NaN, psi_p |-> NaN,
     n |-> Int2F(n), half_life_days |-> NaN]

FittedRecord(n, phi, psi) ==
    [phi |-> phi, phi_se |-> Rat(1, 4), phi_p |-> Rat(1, 100),
     psi |-> psi, psi_se |-> Rat(1, 4), psi_p |-> Rat(1, 100),
     n |-> Int2F(n), bw |-> Int2F(Min(MaxEcmBw, Max(1, AutoBandwidth(n)))),
     half_life_days |-> HalfLife(phi)]

estimate_ecm(p, resid, phi, psi) ==
    LET n == Cardinality(EcmUse(p, resid))
    IN  IF n < MinEcmRows THEN InsufficientRecord(n) ELSE FittedRecord(n, phi, psi)

\* the record main starts from (lines 556-560, 663-667)
NoCointegrationRecord ==
    [phi |-> NaN, phi_se |-> NaN, phi_p |-> NaN,
     psi |-> NaN, psi_se |-> NaN, psi_p |-> NaN,
     n |-> Int2F(0), bw |-> NaN, half_life_days |-> NaN]

HasKey(res, key) == key \in DOMAIN res

\* save_latex_ecm reads res['bw'] (line 402): KeyError when the key is missing
save_latex_ecm_raises(res) ==
    \E key \in {"phi", "phi_se", "phi_p", "psi", "psi_se", "psi_p", "n", "bw", "half_life_days"} :
        ~HasKey(res, key)

\* save_latex_ecm_compact_plain reads every key but 'bw' (lines 443-445)
save_latex_ecm_compact_raises(res) ==
    \E key \in {"phi", "phi_se", "phi_p", "psi", "psi_se", "psi_p", "n", "half_life_days"} :
        ~HasKey(res, key)

----------------------------------------------------------------------------
(* johansen_tests *)

\* rows kept by df.dropna(subset=series)
JohansenSub(p) ==
    {t \in Rows(p.N) : ~LevelNaN(p, "A_t_clean", t) /\ ~LevelNaN(p, "D_star", t)}

\* one row of the result (lines 333-350): the statistic and the critical
\* values are cells of the arrays coint_johansen returns
JohansenRow(r, stat_type) ==
    LET lr == IF stat_type = "trace" THEN "lr1" ELSE "lr2"
        cv == IF stat_type = "trace" THEN "cvt" ELSE "cvm"
    IN  [rank_null |-> r, stat_type |-> stat_type,
         stat |-> <<lr, r>>,
         crit_90 |-> <<cv, r, 0>>, crit_95 |-> <<cv, r, 1>>, crit_99 |-> <<cv, r, 2>>]

\* the test attempted whenever at least one row is complete
johansen_tests_no_minimum(p, test_ok) ==
    IF JohansenSub(p) = {} \/ ~test_ok THEN <<>>
    ELSE <<JohansenRow(0, "trace"), JohansenRow(0, "max-eig"),
           JohansenRow(1, "trace"), JohansenRow(1, "max-eig")>>

\* johansen_tests (lines 318-353); test_ok: coint_johansen did not raise
johansen_tests(p, test_ok) ==
    IF Cardinality(JohansenSub(p)) < MinJohansenRows THEN <<>>
    ELSE IF ~test_ok THEN <<>>
    ELSE <<JohansenRow(0, "trace"), JohansenRow(0, "max-eig"),
           JohansenRow(1, "trace"), JohansenRow(1, "max-eig")>>

\* the record of a diagnostics step that has not run
NoDiagnostics == [refit |-> FALSE, n |-> 0, regs |-> {}, defined |-> FALSE]

\* d_log_base_fee.shift(1): NaN on row 0 and where the difference before is NaN
LagDiffNaN(p, t) == t = 0 \/ DiffNaN(p, "log_base_fee", t - 1)

\* lines 577-583: rows of use that dmatrices keeps (patsy drops the rows
\* with a missing d_D_star or d_log_base_fee_lag1)
DiagRows(p, resid) ==
    {t \in Rows(p.N) :
        /\ ~DiffNaN(p, "log_base_fee", t)
        /\ ~ECTLag1NaN(resid, t)
        /\ ~DiffNaN(p, "A_t_clean", t)
        /\ ~DiffNaN(p, "D_star", t)
        /\ ~LagDiffNaN(p, t)}

\* lines 566-596: OLS raises on a frame without rows; adfuller and
\* acorr_ljungbox may raise on the residuals of a fit
ecm_diagnostics(p, resid, cols, adf_ok) ==
    LET n == Cardinality(DiagRows(p, resid))
    IN  IF n = 0 THEN NoDiagnostics
        ELSE [refit |-> TRUE, n |-> n,
              regs |-> {"ECT_lag1", "d_A_t_clean", "d_D_star", "d_log_base_fee_lag1",
                        "is_weekend", "is_month_end"} \cup (EcmCandidateEvents \cap cols),
              defined |-> adf_ok]

----------------------------------------------------------------------------
(* 11_ecm.main, step by step *)

EcmIdle ==
    /\ df_cols = {}
    /\ eg_p = NaN
    /\ resid_idx = {}
    /\ ecm_summary = NoCointegrationRecord
    /\ ecm_regs = {}
    /\ present_events = {}
    /\ eg_p_ev = NaN
    /\ resid_idx_ev = {}
    /\ ecm_ev = NoCointegrationRecord
    /\ ecm_regs_ev = {}
    /\ ecm_exc = "none"
    /\ joh = <<>>
    /\ ecm_diag = NoDiagnostics

\* the local-projection component when it is not the one under analysis
IrfIdle ==
    /\ irf_pc = "idle"
    /\ irf_in = [H |-> 0, with_mbb |-> FALSE, use_event_controls |-> FALSE]
    /\ df_prep = {}
    /\ irf_extra = {}
    /\ hac_base = -1
    /\ irf_h = 0
    /\ irf_rows = <<>>
    /\ irf_summary = <<>>
    /\ irf_cum = <<>>
    /\ irf_exc = "none"

\* state of an estimator that has not been constructed
ItsReset ==
    /\ its_step = 1
    /\ its_data = {}
    /\ its_results = <<>>
    /\ its_diag = <<>>
    /\ its_grid = <<>>
    /\ its_cell = <<0, 0>>
    /\ its_exc = "none"

\* the levels engine when it is not the one under analysis
ItsIdle ==
    /\ its_pc = "idle"
    /\ its_in = [plan |-> <<>>, use_time_trend |-> FALSE, max_p |-> 0, max_q |-> 0]
    /\ ItsReset

\* the D-star variant script when it is not the one under analysis
VariantIdle ==
    /\ variant_pc = "idle"
    /\ variant_out = <<>>

\* state of the bootstrap script before its first call
MbbReset ==
    /\ mbb_call = 1
    /\ mbb_rng = 0
    /\ mbb_b = 0
    /\ mbb_betas = <<>>
    /\ mbb_starts = <<>>
    /\ mbb_indices = <<>>
    /\ mbb_outs = <<>>

\* the bootstrap when it is not the one under analysis
MbbIdle ==
    /\ mbb_pc = "idle"
    /\ mbb_in = [script |-> <<>>, B |-> 0, random_state |-> 0, degenerate |-> 0]
    /\ MbbReset

\* the bandwidth comparison when it is not the one under analysis
BwIdle ==
    /\ bw_pc = "idle"
    /\ bw_in = <<1, 1>>
    /\ bw_out = <<0, 0>>

CumIdle ==
    /\ cum_pc = "idle"
    /\ cum_in = [has_mbb |-> FALSE, rows |-> <<>>]
    /\ cum_out = <<>>

ExtIdle == VariantIdle /\ MbbIdle /\ BwIdle /\ CumIdle

InitECM ==
    /\ panel \in {p \in EcmPanels : p.miss < p.N}
    /\ ecm_in \in [winsorized : BOOLEAN]
    /\ ecm_in.winsorized => panel \in WinsorPanels
    /\ EcmIdle
    /\ ecm_pc = "start"
    /\ IrfIdle
    /\ ItsIdle
    /\ ExtIdle

\* line 502: df = load_core_panel(...)
Load ==
    /\ ecm_pc = "start"
    /\ df_cols' = load_core_panel(panel)
    /\ ecm_pc' = "eg_full"
    /\ UNCHANGED <<ecm_in, irfVars, itsVars, extVars, joh, ecm_diag>>
    /\ UNCHANGED <<panel, eg_p, resid_idx, ecm_summary, ecm_regs, present_events,
                   eg_p_ev, resid_idx_ev, ecm_ev, ecm_regs_ev, ecm_exc>>

\* lines 528-533: the regime dummies of df that are 1 at row t
main_regimes(p, t) ==
    (IF "regime_post_merge" \in load_core_panel(p)
     THEN PanelFlags(p, t) \cap {"regime_post_merge"}
     ELSE IF t >= MergeRow /\ t < DencunRow THEN {"regime_post_merge"} ELSE {})
    \cup
    (IF "regime_post_dencun" \in load_core_panel(p)
     THEN PanelFlags(p, t) \cap {"regime_post_dencun"}
     ELSE IF t >= DencunRow THEN {"regime_post_dencun"} ELSE {})

\* lines 528-539: regime dummies are constructed when missing, then the
\* full-sample Engle-Granger test
EGFull ==
    /\ ecm_pc = "eg_full"
    /\ \E pv \in PValues :
        LET r == engle_granger(panel, pv)
        IN  /\ eg_p' = r.pval
            /\ resid_idx' = r.resid
    /\ df_cols' = df_cols \cup {"regime_post_merge", "regime_post_dencun"}
    /\ ecm_pc' = "johansen"
    /\ UNCHANGED <<ecm_in, irfVars, itsVars, extVars, joh, ecm_diag>>
    /\ UNCHANGED <<panel, ecm_summary, ecm_regs, present_events,
                   eg_p_ev, resid_idx_ev, ecm_ev, ecm_regs_ev, ecm_exc>>

\* lines 551-553: the Johansen test on (log_base_fee, A_t_clean, D_star)
Johansen ==
    /\ ecm_pc = "johansen"
    /\ \E test_ok \in BOOLEAN : joh' = johansen_tests(panel, test_ok)
    /\ ecm_pc' = "ecm"
    /\ UNCHANGED <<ecm_in, irfVars, itsVars, extVars, ecm_diag>>
    /\ UNCHANGED <<panel, df_cols, eg_p, resid_idx, ecm_summary, ecm_regs, present_events,
                   eg_p_ev, resid_idx_ev, ecm_ev, ecm_regs_ev, ecm_exc>>

\* lines 555-564: the ECM is estimated only when cointegration is detected
ECMBaseline ==
    /\ ecm_pc = "ecm"
    /\ IF Cointegrated(eg_p)
       THEN \E phi \in PhiValues, psi \in PsiValues :
                /\ ecm_summary' = estimate_ecm(panel, resid_idx, phi, psi)
                /\ ecm_regs' = EcmRegressors(df_cols, {})
       ELSE /\ ecm_summary' = NoCointegrationRecord
            /\ ecm_regs' = {}
    /\ ecm_pc' = "diag"
    /\ UNCHANGED <<ecm_in, irfVars, itsVars, extVars, joh, ecm_diag>>
    /\ UNCHANGED <<panel, df_cols, eg_p, resid_idx, present_events,
                   eg_p_ev, resid_idx_ev, ecm_ev, ecm_regs_ev, ecm_exc>>

\* lines 566-596: the ECM design is rebuilt and refitted to test its
\* residuals; any exception leaves the diagnostics undefined
EcmDiagnostics ==
    /\ ecm_pc = "diag"
    /\ \E adf_ok \in BOOLEAN : ecm_diag' = ecm_diagnostics(panel, resid_idx, df_cols, adf_ok)
    /\ ecm_pc' = "latex"
    /\ UNCHANGED <<ecm_in, irfVars, itsVars, extVars, joh>>
    /\ UNCHANGED <<panel, df_cols, eg_p, resid_idx, ecm_summary, ecm_regs, present_events,
                   eg_p_ev, resid_idx_ev, ecm_ev, ecm_regs_ev, ecm_exc>>

\* lines 623-627: render the tables; an exception here ends main
SaveLatex ==
    /\ ecm_pc = "latex"
    /\ IF save_latex_ecm_raises(ecm_summary) \/ save_latex_ecm_compact_raises(ecm_summary)
       THEN /\ ecm_exc' = "KeyError"
            /\ ecm_pc' = "raised"
       ELSE /\ ecm_exc' = ecm_exc
            /\ ecm_pc' = "events"
    /\ UNCHANGED <<ecm_in, irfVars, itsVars, extVars, joh, ecm_diag>>
    /\ UNCHANGED <<panel, df_cols, eg_p, resid_idx, ecm_summary, ecm_regs, present_events,
                   eg_p_ev, resid_idx_ev, ecm_ev, ecm_regs_ev>>

\* lines 643-657: merge the targeted event dummies; when the collaborator
\* fails, df_ev is a copy of df
BuildEvents ==
    /\ ecm_pc = "events"
    /\ \E ok \in BOOLEAN :
        LET df_ev == IF ok THEN merge(df_cols, TargetedEventCols) ELSE df_cols
        IN  present_events' = {c \in EcmCandidateEvents : c \in df_ev}
    /\ ecm_pc' = "eg_ev"
    /\ UNCHANGED <<ecm_in, irfVars, itsVars, extVars, joh, ecm_diag>>
    /\ UNCHANGED <<panel, df_cols, eg_p, resid_idx, ecm_summary, ecm_regs,
                   eg_p_ev, resid_idx_ev, ecm_ev, ecm_regs_ev, ecm_exc>>

\* lines 659-661
EGEvents ==
    /\ ecm_pc = "eg_ev"
    /\ \E pv \in PValues :
        LET r == engle_granger(panel, pv)
        IN  /\ eg_p_ev' = r.pval
            /\ resid_idx_ev' = r.resid
    /\ ecm_pc' = "ecm_ev"
    /\ UNCHANGED <<ecm_in, irfVars, itsVars, extVars, joh, ecm_diag>>
    /\ UNCHANGED <<panel, df_cols, eg_p, resid_idx, ecm_summary, ecm_regs, present_events,
                   ecm_ev, ecm_regs_ev, ecm_exc>>

\* lines 663-673; the comparison table (lines 676-704) swallows its exceptions
ECMEvents ==
    /\ ecm_pc = "ecm_ev"
    /\ IF Cointegrated(eg_p_ev)
       THEN \E phi \in PhiValues, psi \in PsiValues :
                /\ ecm_ev' = estimate_ecm(panel, resid_idx_ev, phi, psi)
                /\ ecm_regs_ev' = EcmRegressors(df_cols \cup present_events, present_events)
       ELSE /\ ecm_ev' = NoCointegrationRecord
            /\ ecm_regs_ev' = {}
    /\ ecm_pc' = "done"
    /\ UNCHANGED <<ecm_in, irfVars, itsVars, extVars, joh, ecm_diag>>
    /\ UNCHANGED <<panel, df_cols, eg_p, resid_idx, ecm_summary, ecm_regs, present_events,
                   eg_p_ev, resid_idx_ev, ecm_exc>>

NextECM ==
    \/ EcmDiagnostics
    \/ Load
    \/ EGFull
    \/ Johansen
    \/ ECMBaseline
    \/ SaveLatex
    \/ BuildEvents
    \/ EGEvents
    \/ ECMEvents


----------------------------------------------------------------------------
(* 12_irf_local_projections.py *)

\* columns of the raw panel handed to compute_irfs
PanelCols(p) ==
    {"date", "A_t_clean", "log_base_fee"}
        \cup (IF p.hasD THEN {"D_star"} ELSE {}) \cup p.evcols \cup RegimeCols(p)
        \cup (IF p.extra # -1 THEN {"S_t"} ELSE {})

\* prepare_frame asserts the required columns (lines 69-71)
prepare_frame_asserts(p) ==
    {"date", "A_t_clean", "log_base_fee", "D_star"} \subseteq PanelCols(p)

\* prepare_frame (lines 73-98): differences, regime and calendar columns, then
\* the registry dummies are merged in unless the collaborator raises
prepare_frame(p, registry_ok) ==
    LET cols == PanelCols(p) \cup
                {"d_log_base_fee", "d_A_t", "d_D_star", "regime_merge",
                 "regime_dencun", "is_weekend", "is_month_end"}
    IN  IF registry_ok THEN merge(cols, RegistryCols) ELSE cols

\* lines 78-84: the regime indicators of the frame that are 1 at row t
prepare_frame_regimes(p, t) ==
    IF "regime_post_merge" \in PanelCols(p)
    THEN (IF "regime_post_merge" \in PanelFlags(p, t) THEN {"regime_merge"} ELSE {})
            \cup (IF "regime_post_dencun" \in PanelFlags(p, t) THEN {"regime_dencun"} ELSE {})
    ELSE (IF t >= MergeRow THEN {"regime_merge"} ELSE {})
            \cup (IF t >= DencunRow THEN {"regime_dencun"} ELSE {})

IrfBaseCols ==
    {"d_A_t", "d_D_star", "regime_merge", "regime_dencun", "is_weekend", "is_month_end"}

\* the frame of horizon_regression with the lead of the outcome filled in
\* past the end of the panel
HorizonRowsFilled(p, h) ==
    {t \in Rows(p.N) :
        /\ t + h - 1 >= 0
        /\ ~DiffNaN(p, "A_t_clean", t)
        /\ ~DiffNaN(p, "D_star", t)}

\* rows of the frame of horizon_regression after dropna (lines 114-129):
\* y_h[t] = Y[t+h] - Y[t+h-1] and the differenced regressors must be defined
HorizonRows(p, h) ==
    {t \in Rows(p.N) :
        /\ t + h <= p.N - 1
        /\ t + h - 1 >= 0
        /\ ~DiffNaN(p, "A_t_clean", t)
        /\ ~DiffNaN(p, "D_star", t)}

\* point estimate of the horizon-h fit on panel p
BetaHat(p, h) == (((p.dgp + 2) * (h + 1)) % 5) - 2

\* sm.OLS raises ValueError on a frame without rows
horizon_regression_raises(p, h) == HorizonRows(p, h) = {}

\* horizon_regression with the bandwidth hac_base_bw + h
horizon_regression_linear_bw(p, cols, h, hac_base_bw, extra_controls) ==
    LET n == Cardinality(HorizonRows(p, h))
        present == {c \in extra_controls : c \in cols}
        base == IF hac_base_bw = -1 THEN AutoBandwidth(n) ELSE hac_base_bw
    IN  [h |-> h, n |-> n, rows |-> HorizonRows(p, h),
         bandwidth |-> Min(base + h, n - 1),
         beta |-> BetaHat(p, h),
         controls |-> IrfBaseCols \cup present]

\* horizon_regression (lines 101-165)
horizon_regression(p, cols, h, hac_base_bw, extra_controls) ==
    LET n == Cardinality(HorizonRows(p, h))
        present == {c \in extra_controls : c \in cols}
        base == IF hac_base_bw = -1 THEN AutoBandwidth(n) ELSE hac_base_bw
    IN  [h |-> h, n |-> n, rows |-> HorizonRows(p, h),
         bandwidth |-> Min(base + Max(h, 1), n - 1),
         beta |-> BetaHat(p, h),
         controls |-> IrfBaseCols \cup present]

\* round(n ** (1/3)): the r with (2r-1)^3 <= 8n < (2r+1)^3
RoundCubeRoot(n) ==
    CHOOSE r \in 0 .. n : (2*r - 1) * (2*r - 1) * (2*r - 1) <= 8 * n
                          /\ 8 * n < (2*r + 1) * (2*r + 1) * (2*r + 1)

\* block length of moving_block_bootstrap_irf (lines 175-177)
BlockLen(n) == Max(5, RoundCubeRoot(n))

\* rng.integers(0, n_eff - block_len + 1) raises ValueError when the upper
\* bound is not positive and a block has to be drawn (lines 198-199)
moving_block_bootstrap_raises(p, h) ==
    LET n_eff == Cardinality(HorizonRows(p, h))
    IN  n_eff > 0 /\ n_eff - BlockLen(p.N) + 1 <= 0

\* state of the component before compute_irfs has run
IrfReset ==
    /\ df_prep = {}
    /\ irf_extra = {}
    /\ hac_base = -1
    /\ irf_h = 0
    /\ irf_rows = <<>>
    /\ irf_summary = <<>>
    /\ irf_cum = <<>>
    /\ irf_exc = "none"

\* lines 236-249 of compute_irfs
PrepareFrame ==
    /\ irf_pc = "start"
    /\ IF ~prepare_frame_asserts(panel)
       THEN /\ irf_exc' = "AssertionError"
            /\ irf_pc' = "raised"
            /\ UNCHANGED <<df_prep, irf_extra>>
       ELSE \E registry_ok \in BOOLEAN :
            /\ df_prep' = prepare_frame(panel, registry_ok)
            /\ irf_extra' = {c \in IrfCandidateEvents :
                               irf_in.use_event_controls /\ c \in df_prep'}
            /\ irf_pc' = "base"
            /\ irf_exc' = irf_exc
    /\ UNCHANGED <<panel, irf_in, hac_base, irf_h, irf_rows, irf_summary, irf_cum>>
    /\ UNCHANGED <<ecmVars, itsVars, extVars>>

\* lines 251-253: the h = 0 fit that supplies the base bandwidth
BaseFit ==
    /\ irf_pc = "base"
    /\ IF horizon_regression_raises(panel, 0)
       THEN /\ irf_exc' = "ValueError"
            /\ irf_pc' = "raised"
            /\ UNCHANGED hac_base
       ELSE /\ hac_base' = horizon_regression(panel, df_prep, 0, -1, irf_extra).bandwidth
            /\ irf_pc' = "sweep"
            /\ irf_exc' = irf_exc
    /\ UNCHANGED <<panel, irf_in, df_prep, irf_extra, irf_h, irf_rows, irf_summary, irf_cum>>
    /\ UNCHANGED <<ecmVars, itsVars, extVars>>

\* the regression moving_block_bootstrap_irf refits on every resample: the
\* outcome of line 180 and the columns of lines 205-207
bootstrap_design ==
    [outcome |-> "log_base_fee",
     regressors |-> {"d_A_t", "d_D_star", "regime_merge", "regime_dencun",
                     "is_weekend", "is_month_end"}]

\* no bootstrap was run for the horizon
NoBootstrap == [outcome |-> "none", regressors |-> {}]

\* lines 257-265: the row of a horizon, with the bootstrap that was run for it
\* (the sweeps analysed here are those of outcome = "log_base_fee")
sweep_row(res, with_mbb) ==
    res @@ [outcome |-> "log_base_fee",
            mbb |-> IF with_mbb THEN bootstrap_design ELSE NoBootstrap]

\* one pass of the loop of lines 256-271: nothing catches an exception of
\* horizon_regression or of moving_block_bootstrap_irf
HorizonStep ==
    /\ irf_pc = "sweep"
    /\ irf_h <= irf_in.H
    /\ IF \/ horizon_regression_raises(panel, irf_h)
          \/ irf_in.with_mbb /\ moving_block_bootstrap_raises(panel, irf_h)
       THEN /\ irf_exc' = "ValueError"
            /\ irf_pc' = "raised"
            /\ UNCHANGED <<irf_h, irf_rows>>
       ELSE /\ irf_rows' = Append(irf_rows,
                               sweep_row(horizon_regression(panel, df_prep, irf_h, hac_base,
                                                            irf_extra),
                                         irf_in.with_mbb))
            /\ irf_h' = irf_h + 1
            /\ UNCHANGED <<irf_pc, irf_exc>>
    /\ UNCHANGED <<panel, irf_in, df_prep, irf_extra, hac_base, irf_summary, irf_cum>>
    /\ UNCHANGED <<ecmVars, itsVars, extVars>>

\* lines 273-276: the summary is built once every horizon has been fitted
FinishSweep ==
    /\ irf_pc = "sweep"
    /\ irf_h > irf_in.H
    /\ irf_summary' = irf_rows
    /\ irf_pc' = "done"
    /\ UNCHANGED <<panel, irf_in, df_prep, irf_extra, hac_base, irf_h, irf_rows, irf_cum, irf_exc>>
    /\ UNCHANGED <<ecmVars, itsVars, extVars>>

RECURSIVE SumBeta(_)
SumBeta(rows) == IF rows = <<>> THEN 0 ELSE Head(rows).beta + SumBeta(Tail(rows))

\* one row of compute_cumulative built from the rows with h < H
cumulative_row_exclusive(summary, H) ==
    LET Below(r) == r.h < H
    IN  [H |-> H, beta_cum |-> SumBeta(SelectSeq(summary, Below))]

\* lines 291-292: sub = summary[summary["h"] <= H]; beta_cum = sub["beta"].sum()
cumulative_row(summary, H) ==
    LET UpTo(r) == r.h <= H
    IN  [H |-> H, beta_cum |-> SumBeta(SelectSeq(summary, UpTo))]

\* compute_cumulative (lines 279-345): one row per H of horizons
compute_cumulative(summary, horizons) ==
    [i \in 1 .. Len(horizons) |-> cumulative_row(summary, horizons[i])]

\* horizon tuples handed to compute_cumulative
CumHorizons == {<<1, 7>>, <<1, 7, 14>>}

ComputeCumulative ==
    /\ irf_pc = "done"
    /\ \E horizons \in CumHorizons :
        irf_cum' = compute_cumulative(irf_summary, horizons)
    /\ irf_pc' = "cum"
    /\ UNCHANGED <<panel, irf_in, df_prep, irf_extra, hac_base, irf_h, irf_rows,
                   irf_summary, irf_exc>>
    /\ UNCHANGED <<ecmVars, itsVars, extVars>>

IrfInputs ==
    [H : 0 .. MaxH, with_mbb : BOOLEAN, use_event_controls : BOOLEAN]

InitIRF ==
    /\ panel \in IrfPanels
    /\ irf_in \in IrfInputs
    /\ IrfReset
    /\ irf_pc = "start"
    /\ EcmIdle
    /\ ecm_pc = "idle"
    /\ ecm_in = [winsorized |-> FALSE]
    /\ ItsIdle
    /\ ExtIdle

NextIRF ==
    \/ PrepareFrame
    \/ BaseFit
    \/ HorizonStep
    \/ FinishSweep
    \/ ComputeCumulative

----------------------------------------------------------------------------
(* models/its_levels.py: ITSLevelsEstimator *)

\* panels of the levels engine
ItsPanels ==
    { Panel(n, hd, m, {}, 0) :
        n \in MinEcmRows .. (MinEcmRows + RowSlack),
        hd \in BOOLEAN,
        m \in -1 .. MaxMissPos }
    \cup
    { WithRegime(Panel(MinEcmRows, TRUE, -1, {}, 0), r) : r \in PanelRegimes }
    \cup
    { WithExtraNaN(Panel(MinEcmRows, TRUE, -1, {}, 0), ExtraNaNRow) }

\* __init__ and _prepare_data (lines 60-116): the columns of self.data
prepare_data(p) ==
    PanelCols(p) \cup {"regime_merge", "regime_dencun", "day_of_week",
                       "month_of_year", "is_weekend", "is_month_end", "time_trend"}
        \cup (IF "regime_post_merge" \in PanelCols(p) THEN {} ELSE {"regime_london"})

\* lines 84-103: the regime indicators of self.data that are 1 at row t
prepare_data_regimes(p, t) ==
    IF "regime_post_merge" \in PanelCols(p)
    THEN (IF "regime_post_merge" \in PanelFlags(p, t) THEN {"regime_merge"} ELSE {})
            \cup (IF "regime_post_dencun" \in PanelFlags(p, t) THEN {"regime_dencun"} ELSE {})
    ELSE (IF t < MergeRow THEN {"regime_london"} ELSE {})
            \cup (IF t >= MergeRow /\ t < DencunRow THEN {"regime_merge"} ELSE {})
            \cup (IF t >= DencunRow THEN {"regime_dencun"} ELSE {})

\* dmatrices raises when the formula names a column self.data lacks
dmatrices_raises(cols, terms) == ~(terms \subseteq cols)

\* right-hand side of the formula of estimate_main_spec (lines 135-145)
MainTerms(use_time_trend) ==
    {"log_base_fee", "A_t_clean", "D_star", "regime_merge", "regime_dencun",
     "is_weekend", "is_month_end"}
        \cup (IF use_time_trend THEN {"time_trend"} ELSE {})

\* rows dmatrices keeps: patsy drops the rows with a missing cell
DesignRows(p) == {t \in Rows(p.N) : ~LevelNaN(p, "A_t_clean", t) /\ ~LevelNaN(p, "D_star", t)}

\* lags of estimate_distributed_lags (default argument, line 210)
DefaultLags == <<1, 7>>
LagCol(lag) == IF lag = 1 THEN "A_t_clean_lag1" ELSE "A_t_clean_lag7"
LagCols == {LagCol(DefaultLags[i]) : i \in 1 .. Len(DefaultLags)}

\* is the cell of column c of self.data at row t missing?
ItsColNaN(p, c, t) ==
    CASE c = "A_t_clean"         -> LevelNaN(p, "A_t_clean", t)
      [] c = "A_t_clean_lag1"    -> t < 1 \/ LevelNaN(p, "A_t_clean", t - 1)
      [] c = "A_t_clean_lag7"    -> t < 7 \/ LevelNaN(p, "A_t_clean", t - 7)
      [] c = "log_base_fee_lag1" -> t < 1
      [] c = "d_log_base_fee"    -> t < 1
      [] c = "d_A_t"             -> DiffNaN(p, "A_t_clean", t)
      [] c = "d_D_star"          -> t < 1
      [] c = "S_t"               -> t = p.extra
      [] OTHER                   -> FALSE

\* rows of self.data.dropna(): the rows without a missing cell in any column
DropnaRows(p, cols) == {t \in Rows(p.N) : \A c \in cols : ~ItsColNaN(p, c, t)}

\* rows of the Koyck regression: self.data.dropna() once log_base_fee_lag1
\* has been added to the columns self.data already has (lines 295-306)
KoyckRows(p, cols) == DropnaRows(p, cols \cup {"log_base_fee_lag1"})

\* (np.exp(0.10 * x) - 1) * 100 on the grid of eighths, in thousandths
ExpTenth(m) ==
    CASE m = -4 -> -4877 [] m = -2 -> -2469 [] m = -1 -> -1242 [] m = 0 -> 0
      [] m = 1 -> 1258   [] m = 2 -> 2532   [] m = 4 -> 5127

semi_elasticity(x) ==
    IF isfinite(x) THEN Rat(ExpTenth((x.n * 8) \div x.d), 1000) ELSE NaN

\* 1 - x
OneMinus(x) == IF x.k = "num" THEN Rat(x.d - x.n, x.d) ELSE x

\* estimates the fits may return
BetaValues == {Rat(-1, 4), Rat(0, 4), Rat(1, 4)}
RhoValues == {Rat(-4, 4), Rat(0, 4), Rat(2, 4), Rat(4, 4), Rat(6, 4)}

\* HAC standard errors the main fit may return
SeValues == {Rat(1, 8), Rat(1, 2)}

\* np.exp(0.10 * beta) for the estimates of BetaValues, in thousandths
ExpOfTenth(beta) ==
    IF beta = Rat(0, 1) THEN Rat(1, 1)
    ELSE IF FLess(beta, Rat(0, 1)) THEN Rat(975, 1000) ELSE Rat(1025, 1000)

\* a * b for defined operands
FTimes(a, b) == Rat(a.n * b.n, a.d * b.d)

\* the delta method with the derivative exp(0.10 * beta)
delta_method_se_unscaled(beta, se_beta) == FTimes(ExpOfTenth(beta), se_beta)

\* _delta_method_se (lines 696-697): derivative = 10 * exp(0.10 * beta)
delta_method_se(beta, se_beta) == FTimes(FTimes(Int2F(10), ExpOfTenth(beta)), se_beta)

\* self.results['main_effect'] (lines 169-193)
main_effect(p, beta, se) ==
    LET n == Cardinality(DesignRows(p))
    IN  [beta |-> beta, se |-> se, semi_elasticity |-> semi_elasticity(beta),
         semi_se |-> delta_method_se(beta, se),
         bandwidth |-> AutoBandwidth(n), n_obs |-> n]

\* the long-run multiplier with the test rho <= 1
long_run_inclusive(rho, short_run) ==
    IF ~FGreater(rho, Int2F(1)) /\ ~isnan(rho) THEN FDiv(short_run, OneMinus(rho)) ELSE NaN

\* lines 327-332: long_run = short_run / (1 - rho) if rho < 1 else np.nan
long_run(rho, short_run) ==
    IF FLess(rho, Int2F(1)) THEN FDiv(short_run, OneMinus(rho)) ELSE NaN

\* self.results['koyck'] (lines 335-343)
koyck_result(p, cols, rho, short_run) ==
    [rho |-> rho, short_run_effect |-> short_run,
     long_run_effect |-> long_run(rho, short_run),
     long_run_semi_elasticity |-> semi_elasticity(long_run(rho, short_run)),
     adjustment_speed |-> OneMinus(rho),
     n_obs |-> Cardinality(KoyckRows(p, cols))]

\* grid rows (lines 472-486)
FittedCell(p, q, beta, aic, lb, n) ==
    [p |-> p, q |-> q, beta |-> beta, aic |-> aic, lb_p_at_maxlag |-> lb, n |-> n]
FailedCell(p, q, n) ==
    [p |-> p, q |-> q, beta |-> NaN, aic |-> PosInf, lb_p_at_maxlag |-> NaN, n |-> n]

\* what one ARIMA fit may give: an exception, or (beta, aic, Ljung-Box p)
CellOutcomes ==
    {[ok |-> FALSE, beta |-> NaN, aic |-> PosInf, lb |-> NaN],
     [ok |-> TRUE, beta |-> Rat(1, 4), aic |-> Int2F(10), lb |-> Rat(1, 10)],
     [ok |-> TRUE, beta |-> Rat(0, 4), aic |-> Int2F(10), lb |-> Rat(5, 10)],
     [ok |-> TRUE, beta |-> Rat(-1, 4), aic |-> Int2F(12), lb |-> Rat(5, 10)]}

\* the loop order of lines 454-458: p outer, q inner, (0, 0) skipped
FirstCell(max_q) == IF max_q >= 1 THEN <<0, 1>> ELSE <<1, 0>>
NextCell(cell, max_q) ==
    IF cell[2] < max_q THEN <<cell[1], cell[2] + 1>> ELSE <<cell[1] + 1, 0>>
\* has the loop run past the last cell?
CellsExhausted(cell, max_p) == cell[1] > max_p

\* sort_values(['aic', 'lb_p_at_maxlag'], ascending=[True, False]): does row a
\* come strictly before row b?  (NaN keys are placed last)
SortsBefore(a, b) ==
    \/ FLess(a.aic, b.aic)
    \/ /\ a.aic = b.aic
       /\ \/ ~isnan(a.lb_p_at_maxlag) /\ isnan(b.lb_p_at_maxlag)
          \/ FGreater(a.lb_p_at_maxlag, b.lb_p_at_maxlag)

\* line 491: grid_sorted.iloc[0] (the sort is stable)
best_of(grid) ==
    LET i == CHOOSE i \in 1 .. Len(grid) :
                \A j \in 1 .. Len(grid) :
                    /\ ~SortsBefore(grid[j], grid[i])
                    /\ j < i => SortsBefore(grid[i], grid[j])
    IN  grid[i]

\* dict assignment d[key] = value
Put(d, key, value) == [k \in DOMAIN d \cup {key} |-> IF k = key THEN value ELSE d[k]]

\* _run_diagnostics (lines 699-730): the three entries of self.diagnostics
\* are assigned from the residuals of the model handed in
run_diagnostics(diag, owner) ==
    Put(Put(Put(diag, "ljung_box", owner), "white_test", owner), "durbin_watson", owner)

\* a + b for defined operands
FAdd(a, b) == Rat(a.n * b.d + b.n * a.d, a.d * b.d)

\* coefficients of the two lag terms the fit may return
LagEffects == {<<Rat(0, 4), Rat(0, 4)>>, <<Rat(1, 4), Rat(0, 4)>>}

\* self.results['distributed_lags'] (lines 255-267)
distributed_lags_result(p, cols, contemporaneous, lag_effects) ==
    LET lr == FAdd(FAdd(contemporaneous, lag_effects[1]), lag_effects[2])
    IN  [contemporaneous |-> contemporaneous, lags |-> lag_effects,
         long_run_effect |-> lr,
         long_run_semi_elasticity |-> semi_elasticity(lr),
         n_obs |-> Cardinality(DropnaRows(p, cols))]

\* columns added by estimate_differences_robustness (lines 584-586)
DiffCols == {"d_log_base_fee", "d_A_t", "d_D_star"}

\* self.results['differences'] (lines 611-617)
differences_result(p, cols, beta) ==
    [beta |-> beta, n_obs |-> Cardinality(DropnaRows(p, cols))]

\* self.results['arima'] (lines 400-410), None when the fit raised (line 425)
arima_result(p, fit_ok, beta) ==
    IF fit_ok
    THEN [beta |-> beta, semi_elasticity |-> semi_elasticity(beta),
          n_obs |-> Cardinality(DesignRows(p))]
    ELSE [none |-> TRUE]

\* the rows of S in date order
SortedRows(S) ==
    [i \in 1 .. Cardinality(S) |->
        CHOOSE t \in S : Cardinality({u \in S : u < t}) = i - 1]

\* values of the outcome and of the design columns (Intercept, A_t_clean,
\* D_star) at row t of the panel
YValue(t) == Int2F(((t * t) % 7) - 3)
XValue(t) == <<Int2F(1), Int2F(t % 3), Int2F(((2 * t) % 5) - 2)>>

\* y.values and X.values of dmatrices (line 516)
Endog(p) == [i \in 1 .. Cardinality(DesignRows(p)) |-> YValue(SortedRows(DesignRows(p))[i])]
Exog(p) == [i \in 1 .. Cardinality(DesignRows(p)) |-> XValue(SortedRows(DesignRows(p))[i])]

\* np.sqrt(1 - rho**2) for the values of rho the fits return
SqrtOneMinusSq(rho) == IF rho = Rat(3, 5) THEN Rat(4, 5) ELSE Rat(1, 1)

FSub(a, b) == Rat(a.n * b.d - b.n * a.d, a.d * b.d)

\* the transform that drops the first observation: row i of the result is
\* v[i+1] - rho * v[i]
cochrane_orcutt(v, rho) ==
    [i \in 1 .. (Len(v) - 1) |-> FSub(v[i + 1], FTimes(rho, v[i]))]

\* lines 532-535: the first observation is scaled by sqrt(1 - rho^2), row i
\* of the rest is v[i] - rho * v[i-1]
prais_winsten(v, rho) ==
    [i \in 1 .. Len(v) |->
        IF i = 1 THEN FTimes(SqrtOneMinusSq(rho), v[1])
        ELSE FSub(v[i], FTimes(rho, v[i - 1]))]

\* column j of the design matrix
Column(X, j) == [i \in 1 .. Len(X) |-> X[i][j]]

\* lines 537-539: the same transform on every column of X
TransformExog(X, rho) ==
    [i \in 1 .. Len(prais_winsten(Column(X, 1), rho)) |->
        [j \in 1 .. 3 |-> prais_winsten(Column(X, j), rho)[i]]]

RECURSIVE SumNumerators(_)
SumNumerators(v) == IF v = <<>> THEN 0 ELSE Head(v).n + SumNumerators(Tail(v))

\* coefficient of A_t_clean of OLS(y, X).fit(): a fixed function of the data
OlsBeta(y, X) ==
    Rat(((SumNumerators(y) + SumNumerators(Column(X, 2)) + Len(y)) % 3) - 1, 4)

\* self.results['fgls'] (lines 541-565); endog and exog are the data held by
\* the fitted model
fgls_result(p, rho) ==
    LET y == prais_winsten(Endog(p), rho)
        X == TransformExog(Exog(p), rho)
    IN  [beta |-> OlsBeta(y, X), semi_elasticity |-> semi_elasticity(OlsBeta(y, X)),
         rho |-> rho, durbin_watson |-> "fgls", n_obs |-> Cardinality(DesignRows(p)),
         endog |-> y, exog |-> X]

CurrentCall == its_in.plan[its_step]

\* ITSLevelsEstimator(data)
Construct ==
    /\ its_pc = "new"
    /\ its_data' = prepare_data(panel)
    /\ its_pc' = "call"
    /\ UNCHANGED <<panel, its_in, its_step, its_results, its_diag, its_grid, its_cell, its_exc>>
    /\ UNCHANGED <<ecmVars, irfVars, extVars>>

\* the script has made all its calls
Finish ==
    /\ its_pc = "call"
    /\ its_step > Len(its_in.plan)
    /\ its_pc' = "done"
    /\ UNCHANGED <<panel, its_in, its_step, its_data, its_results, its_diag, its_grid,
                   its_cell, its_exc>>
    /\ UNCHANGED <<ecmVars, irfVars, extVars>>

\* estimate_main_spec (lines 120-208), _run_diagnostics included
EstimateMainSpec ==
    /\ its_pc = "call"
    /\ its_step <= Len(its_in.plan)
    /\ CurrentCall = "main"
    /\ IF dmatrices_raises(its_data, MainTerms(its_in.use_time_trend))
       THEN /\ its_exc' = "PatsyError"
            /\ its_pc' = "raised"
            /\ UNCHANGED <<its_step, its_results, its_diag>>
       ELSE /\ \E beta \in BetaValues, se \in SeValues :
                its_results' = Put(its_results, "main_effect", main_effect(panel, beta, se))
            /\ its_diag' = run_diagnostics(its_diag, "main_effect")
            /\ its_step' = its_step + 1
            /\ UNCHANGED <<its_pc, its_exc>>
    /\ UNCHANGED <<panel, its_in, its_data, its_grid, its_cell>>
    /\ UNCHANGED <<ecmVars, irfVars, extVars>>

\* estimate_koyck_lag (lines 280-352)
EstimateKoyckLag ==
    /\ its_pc = "call"
    /\ its_step <= Len(its_in.plan)
    /\ CurrentCall = "koyck"
    /\ its_data' = its_data \cup {"log_base_fee_lag1"}
    /\ IF dmatrices_raises(its_data', MainTerms(its_in.use_time_trend) \cup {"log_base_fee_lag1"})
       THEN /\ its_exc' = "PatsyError"
            /\ its_pc' = "raised"
            /\ UNCHANGED <<its_step, its_results>>
       ELSE /\ \E rho \in RhoValues, short_run \in BetaValues :
                its_results' = Put(its_results, "koyck",
                                   koyck_result(panel, its_data, rho, short_run))
            /\ its_step' = its_step + 1
            /\ UNCHANGED <<its_pc, its_exc>>
    /\ UNCHANGED <<panel, its_in, its_diag, its_grid, its_cell>>
    /\ UNCHANGED <<ecmVars, irfVars, extVars>>

\* estimate_distributed_lags (lines 210-278): the lag columns stay in self.data
EstimateDistributedLags ==
    /\ its_pc = "call"
    /\ its_step <= Len(its_in.plan)
    /\ CurrentCall = "dl"
    /\ its_data' = its_data \cup LagCols
    /\ IF dmatrices_raises(its_data', MainTerms(FALSE) \cup LagCols)
       THEN /\ its_exc' = "PatsyError"
            /\ its_pc' = "raised"
            /\ UNCHANGED <<its_step, its_results>>
       ELSE /\ \E b \in BetaValues, le \in LagEffects :
                its_results' = Put(its_results, "distributed_lags",
                                   distributed_lags_result(panel, its_data', b, le))
            /\ its_step' = its_step + 1
            /\ UNCHANGED <<its_pc, its_exc>>
    /\ UNCHANGED <<panel, its_in, its_diag, its_grid, its_cell>>
    /\ UNCHANGED <<ecmVars, irfVars, extVars>>

\* estimate_ar_errors (lines 354-427): only the fit is inside the try
EstimateArErrors ==
    /\ its_pc = "call"
    /\ its_step <= Len(its_in.plan)
    /\ CurrentCall = "arima"
    /\ IF dmatrices_raises(its_data, MainTerms(FALSE))
       THEN /\ its_exc' = "PatsyError"
            /\ its_pc' = "raised"
            /\ UNCHANGED <<its_step, its_results>>
       ELSE /\ \E fit_ok \in BOOLEAN, b \in BetaValues :
                its_results' = Put(its_results, "arima", arima_result(panel, fit_ok, b))
            /\ its_step' = its_step + 1
            /\ UNCHANGED <<its_pc, its_exc>>
    /\ UNCHANGED <<panel, its_in, its_data, its_diag, its_grid, its_cell>>
    /\ UNCHANGED <<ecmVars, irfVars, extVars>>

\* estimate_fgls (lines 502-573)
EstimateFgls ==
    /\ its_pc = "call"
    /\ its_step <= Len(its_in.plan)
    /\ CurrentCall = "fgls"
    /\ IF dmatrices_raises(its_data, MainTerms(FALSE))
       THEN /\ its_exc' = "PatsyError"
            /\ its_pc' = "raised"
            /\ UNCHANGED <<its_step, its_results>>
       ELSE /\ \E rho \in {Rat(0, 5), Rat(3, 5)} :
                its_results' = Put(its_results, "fgls", fgls_result(panel, rho))
            /\ its_step' = its_step + 1
            /\ UNCHANGED <<its_pc, its_exc>>
    /\ UNCHANGED <<panel, its_in, its_data, its_diag, its_grid, its_cell>>
    /\ UNCHANGED <<ecmVars, irfVars, extVars>>

\* estimate_differences_robustness (lines 575-635): self.data['D_star'] raises
\* KeyError once the first two difference columns have been added
EstimateDifferences ==
    /\ its_pc = "call"
    /\ its_step <= Len(its_in.plan)
    /\ CurrentCall = "diff"
    /\ IF "D_star" \notin its_data
       THEN /\ its_data' = its_data \cup {"d_log_base_fee", "d_A_t"}
            /\ its_exc' = "KeyError"
            /\ its_pc' = "raised"
            /\ UNCHANGED <<its_step, its_results>>
       ELSE /\ its_data' = its_data \cup DiffCols
            /\ \E b \in BetaValues :
                its_results' = Put(its_results, "differences",
                                   differences_result(panel, its_data', b))
            /\ its_step' = its_step + 1
            /\ UNCHANGED <<its_pc, its_exc>>
    /\ UNCHANGED <<panel, its_in, its_diag, its_grid, its_cell>>
    /\ UNCHANGED <<ecmVars, irfVars, extVars>>

\* estimate_arma_grid, lines 444-453: the design matrices, then the loop starts
GridStart ==
    /\ its_pc = "call"
    /\ its_step <= Len(its_in.plan)
    /\ CurrentCall = "grid"
    /\ IF dmatrices_raises(its_data, MainTerms(FALSE))
       THEN /\ its_exc' = "PatsyError"
            /\ its_pc' = "raised"
            /\ UNCHANGED <<its_grid, its_cell>>
       ELSE /\ its_grid' = <<>>
            /\ its_cell' = FirstCell(its_in.max_q)
            /\ its_pc' = "grid"
            /\ its_exc' = its_exc
    /\ UNCHANGED <<panel, its_in, its_step, its_data, its_results, its_diag>>
    /\ UNCHANGED <<ecmVars, irfVars, extVars>>

\* one pass of the loop body (lines 459-486): an exception of the fit is
\* caught and a row with aic = inf is appended
GridCell ==
    /\ its_pc = "grid"
    /\ ~CellsExhausted(its_cell, its_in.max_p)
    /\ \E o \in CellOutcomes :
        LET n == Cardinality(DesignRows(panel))
        IN  its_grid' = Append(its_grid,
                IF o.ok THEN FittedCell(its_cell[1], its_cell[2], o.beta, o.aic, o.lb, n)
                ELSE FailedCell(its_cell[1], its_cell[2], n))
    /\ its_cell' = NextCell(its_cell, its_in.max_q)
    /\ UNCHANGED <<panel, its_pc, its_in, its_step, its_data, its_results, its_diag, its_exc>>
    /\ UNCHANGED <<ecmVars, irfVars, extVars>>

\* lines 488-500: sort and select; sort_values raises KeyError on the
\* column-less frame built from no rows
GridSelect ==
    /\ its_pc = "grid"
    /\ CellsExhausted(its_cell, its_in.max_p)
    /\ IF its_grid = <<>>
       THEN /\ its_exc' = "KeyError"
            /\ its_pc' = "raised"
            /\ UNCHANGED <<its_results, its_step>>
       ELSE /\ its_results' = Put(Put(its_results, "arma_grid", its_grid),
                                  "arma_best", best_of(its_grid))
            /\ its_step' = its_step + 1
            /\ its_pc' = "call"
            /\ its_exc' = its_exc
    /\ UNCHANGED <<panel, its_in, its_data, its_diag, its_grid, its_cell>>
    /\ UNCHANGED <<ecmVars, irfVars, extVars>>

\* methods whose rows depend on, or add to, the columns of self.data
FrameMethods == {"main", "dl", "koyck", "diff"}

\* the scripts: one method, or two of the methods of FrameMethods in a row;
\* estimate_arma_grid runs on complete panels
ItsScripts ==
    { [plan |-> <<m>>, use_time_trend |-> tt, max_p |-> 0, max_q |-> 0] :
        m \in {"main", "koyck"}, tt \in BOOLEAN }
    \cup
    { [plan |-> <<m>>, use_time_trend |-> FALSE, max_p |-> 0, max_q |-> 0] :
        m \in {"dl", "diff", "arima", "fgls"} }
    \cup
    { [plan |-> <<m1, m2>>, use_time_trend |-> FALSE, max_p |-> 0, max_q |-> 0] :
        m1 \in FrameMethods, m2 \in FrameMethods }
    \cup
    { [plan |-> <<"grid">>, use_time_trend |-> FALSE, max_p |-> mp, max_q |-> mq] :
        mp \in 0 .. MaxP, mq \in {0, 1} }

InitITS ==
    /\ panel \in ItsPanels
    /\ its_in \in ItsScripts
    /\ its_in.plan = <<"grid">> => panel.miss = -1
    /\ ItsReset
    /\ its_pc = "new"
    /\ EcmIdle
    /\ ecm_pc = "idle"
    /\ ecm_in = [winsorized |-> FALSE]
    /\ IrfIdle
    /\ ExtIdle

NextITS ==
    \/ Construct
    \/ EstimateMainSpec
    \/ EstimateKoyckLag
    \/ EstimateDistributedLags
    \/ EstimateArErrors
    \/ EstimateFgls
    \/ EstimateDifferences
    \/ GridStart
    \/ GridCell
    \/ GridSelect
    \/ Finish

----------------------------------------------------------------------------
(* 11b_demand_factor_variants.estimate_ecm *)

\* panels of the variant script: D_star present, at most one missing
\* A_t_clean cell
VariantPanels ==
    { Panel(n, TRUE, m, {}, 0) :
        n \in MinVariantRows .. (MinVariantRows + RowSlack),
        m \in -1 .. MaxMissPos }

\* data = df.dropna(subset=cols_needed): the rows with every level present
VariantData(p) ==
    {t \in Rows(p.N) : ~LevelNaN(p, "A_t_clean", t) /\ ~LevelNaN(p, "D_star", t)}

\* the row of S just before t, -1 when there is none
PrevIn(S, t) ==
    IF \E s \in S : s < t
    THEN CHOOSE s \in S : s < t /\ \A u \in S : u < t => u <= s
    ELSE -1

\* data["ECT_lag1"] = resid.shift(1): resid is labelled by the rows of data
\* and shift moves values by one position of that series; the value is the
\* row whose residual lands on row t (-1: NaN)
VariantEctLag1(p) ==
    [t \in VariantData(p) |-> PrevIn(VariantData(p), t)]

\* ecm_data = data.dropna(subset=cols_ecm): d_log_base_fee, d_A_t_clean and
\* ECT_lag1 are NaN on the first row of data, d_log_base_fee_lag1 on the
\* first two
VariantEcmData(p) ==
    {t \in VariantData(p) :
        /\ PrevIn(VariantData(p), t) # -1
        /\ PrevIn(VariantData(p), PrevIn(VariantData(p), t)) # -1}

variant_estimate_ecm(p) ==
    [ECT_lag1   |-> VariantEctLag1(p),
     n_long_run |-> Cardinality(VariantData(p)),
     n_ecm      |-> Cardinality(VariantEcmData(p))]

VariantEstimateEcm ==
    /\ variant_pc = "start"
    /\ variant_out' = variant_estimate_ecm(panel)
    /\ variant_pc' = IF variant_estimate_ecm(panel).n_ecm < MinVariantRows
                     THEN "raised" ELSE "done"
    /\ UNCHANGED <<panel, ecmVars, irfVars, itsVars, mbbVars, bwVars, cumVars>>

InitVariant ==
    /\ panel \in VariantPanels
    /\ variant_pc = "start"
    /\ variant_out = <<>>
    /\ MbbIdle
    /\ BwIdle
    /\ CumIdle
    /\ EcmIdle
    /\ ecm_pc = "idle"
    /\ ecm_in = [winsorized |-> FALSE]
    /\ IrfIdle
    /\ ItsIdle

NextVariant == VariantEstimateEcm

----------------------------------------------------------------------------
(* 12_irf_local_projections.moving_block_bootstrap_irf *)

\* the frames handed to the bootstrap: complete prepared panels
MbbPanels == { Panel(MaxIrfRows, TRUE, -1, {}, g) : g \in 0 .. MaxDgp }

\* 42 is the default random_state
MbbSeeds == {14, 42}

MbbReplications ==
    {MinReplications - 1, MinReplications, MinReplications + 1, 2 * MinReplications + 2}

\* two calls for one horizon, with or without a call for another horizon in
\* between, and a horizon that leaves fewer rows than one block
MbbScripts == {<<0, 0>>, <<6, 6>>, <<0, 6, 0>>, <<MaxIrfRows - 4>>}

\* the k-th number of the stream of np.random.default_rng(seed): a fixed
\* function of the seed and of how many numbers the generator has produced
Stream(seed, k) == ((seed + 1) * (k * k + 3 * k + 7) + k) % 1009

\* rng.integers(0, high) as the k-th draw of the generator
integers(seed, k, high) == Stream(seed, k) % high

\* a generator that goes on from where the previous call stopped
shared_rng(drawn) == drawn

\* line 174: rng = np.random.default_rng(random_state), a new generator
default_rng(drawn) == 0

\* the threshold without the floor of 30 replications
mbb_threshold_half(B) == B \div 2

\* line 216: max(30, int(0.5 * B))
mbb_threshold(B) == Max(MinReplications, B \div 2)

\* blocks drawn by one replication: until the indices reach n_eff (lines 198-201)
BlocksPerReplication(n_eff, block_len) == (n_eff + block_len - 1) \div block_len

\* block starts of the replication that begins with the generator at drawn
DrawStarts(seed, drawn, n_eff, block_len) ==
    [j \in 1 .. BlocksPerReplication(n_eff, block_len) |->
        integers(seed, drawn + j - 1, n_eff - block_len + 1)]

\* lines 197-202: the blocks range(start, start + block_len) laid end to
\* end and cut to n_eff positions
resample_indices(starts, n_eff, block_len) ==
    [i \in 1 .. Min(n_eff, Len(starts) * block_len) |->
        starts[((i - 1) \div block_len) + 1] + ((i - 1) % block_len)]

RECURSIVE SumSeq(_)
SumSeq(q) == IF q = <<>> THEN 0 ELSE Head(q) + SumSeq(Tail(q))

\* lines 204-213: the fit on the resampled rows; it fails on a sample that
\* begins in the degenerate rows of the frame
replication_beta(p, h, starts, degenerate) ==
    IF starts # <<>> /\ starts[1] < degenerate
    THEN [ok |-> FALSE, beta |-> 0]
    ELSE [ok |-> TRUE, beta |-> ((BetaHat(p, h) + SumSeq(starts)) % 7) - 3]

IsOk(r) == r.ok

\* betas[~np.isnan(betas)]
DropNaN(betas) == SelectSeq(betas, IsOk)

\* the k-th smallest (k = 0, 1, ...) beta of a non-empty sequence
KthSmallest(q, k) ==
    CHOOSE v \in {q[i].beta : i \in DOMAIN q} :
        /\ Cardinality({i \in DOMAIN q : q[i].beta < v}) <= k
        /\ k < Cardinality({i \in DOMAIN q : q[i].beta <= v})

\* 1000 * np.percentile(q, permille / 10): linear interpolation between the
\* order statistics around position (n - 1) * permille / 1000
Percentile(q, permille) ==
    LET pos  == (Len(q) - 1) * permille
        i    == pos \div 1000
        f    == pos % 1000
        x    == KthSmallest(q, i)
    IN  IF f = 0 THEN 1000 * x
        ELSE 1000 * x + f * (KthSmallest(q, i + 1) - x)

\* lines 215-221: the value returned for the betas of a finished loop
mbb_return(betas, B) ==
    LET kept == DropNaN(betas)
    IN  IF Len(kept) < mbb_threshold(B)
        THEN [defined |-> FALSE, lo |-> 0, hi |-> 0]
        ELSE [defined |-> TRUE, lo |-> Percentile(kept, 25), hi |-> Percentile(kept, 975)]

MbbH == mbb_in.script[mbb_call]
MbbNEff == Cardinality(HorizonRows(panel, MbbH))

\* lines 174-192: a call creates its generator and builds base_frame
MbbEnter ==
    /\ mbb_pc = "call"
    /\ mbb_rng' = default_rng(mbb_rng)
    /\ mbb_b' = 0
    /\ mbb_betas' = <<>>
    /\ mbb_starts' = <<>>
    /\ mbb_pc' = "loop"
    /\ UNCHANGED <<mbb_in, mbb_call, mbb_indices, mbb_outs>>
    /\ UNCHANGED <<panel, ecmVars, irfVars, itsVars, variantVars, bwVars, cumVars>>

\* one replication (lines 195-213); rng.integers raises when base_frame
\* has fewer rows than one block
MbbReplicate ==
    /\ mbb_pc = "loop"
    /\ mbb_b < mbb_in.B
    /\ IF moving_block_bootstrap_raises(panel, MbbH)
       THEN /\ mbb_pc' = "raised"
            /\ UNCHANGED <<mbb_rng, mbb_b, mbb_betas, mbb_starts, mbb_indices>>
       ELSE LET starts == DrawStarts(mbb_in.random_state, mbb_rng, MbbNEff,
                                     BlockLen(panel.N))
            IN  /\ mbb_rng' = mbb_rng + Len(starts)
                /\ mbb_starts' = mbb_starts \o starts
                /\ mbb_indices' = resample_indices(starts, MbbNEff, BlockLen(panel.N))
                /\ mbb_betas' = Append(mbb_betas,
                                       replication_beta(panel, MbbH, starts,
                                                        mbb_in.degenerate))
                /\ mbb_b' = mbb_b + 1
                /\ mbb_pc' = mbb_pc
    /\ UNCHANGED <<mbb_in, mbb_call, mbb_outs>>
    /\ UNCHANGED <<panel, ecmVars, irfVars, itsVars, variantVars, bwVars, cumVars>>

\* lines 215-221, then the script goes on to its next call
MbbReturn ==
    /\ mbb_pc = "loop"
    /\ mbb_b = mbb_in.B
    /\ mbb_outs' = Append(mbb_outs,
                          [h |-> MbbH, starts |-> mbb_starts, betas |-> mbb_betas,
                           ci |-> mbb_return(mbb_betas, mbb_in.B)])
    /\ mbb_call' = mbb_call + 1
    /\ mbb_pc' = IF mbb_call = Len(mbb_in.script) THEN "done" ELSE "call"
    /\ UNCHANGED <<mbb_in, mbb_rng, mbb_b, mbb_betas, mbb_starts, mbb_indices>>
    /\ UNCHANGED <<panel, ecmVars, irfVars, itsVars, variantVars, bwVars, cumVars>>

InitMbb ==
    /\ panel \in MbbPanels
    /\ mbb_in \in [script : MbbScripts, B : MbbReplications,
                   random_state : MbbSeeds, degenerate : 0 .. MaxDegenerate]
    /\ mbb_pc = "call"
    /\ MbbReset
    /\ VariantIdle
    /\ BwIdle
    /\ CumIdle
    /\ EcmIdle
    /\ ecm_pc = "idle"
    /\ ecm_in = [winsorized |-> FALSE]
    /\ IrfIdle
    /\ ItsIdle

NextMbb == MbbEnter \/ MbbReplicate \/ MbbReturn

----------------------------------------------------------------------------
(* The automatic bandwidth of two fits of different sample sizes *)

\* estimate_main_spec (its_levels.py:156-157) and horizon_regression
\* (12_irf_local_projections.py:138-140) on samples of n1 <= n2 rows
ComputeBandwidths ==
    /\ bw_pc = "start"
    /\ bw_out' = <<AutoBandwidth(bw_in[1]), AutoBandwidth(bw_in[2])>>
    /\ bw_pc' = "done"
    /\ UNCHANGED <<panel, bw_in, ecmVars, irfVars, itsVars, variantVars, mbbVars,
                   cumVars>>

InitBw ==
    /\ panel = Panel(0, FALSE, -1, {}, 0)
    /\ bw_in \in {<<n1, n2>> \in (1 .. MaxSample) \X (1 .. MaxSample) : n1 <= n2}
    /\ bw_out = <<0, 0>>
    /\ bw_pc = "start"
    /\ VariantIdle
    /\ MbbIdle
    /\ CumIdle
    /\ EcmIdle
    /\ ecm_pc = "idle"
    /\ ecm_in = [winsorized |-> FALSE]
    /\ IrfIdle
    /\ ItsIdle

NextBw == ComputeBandwidths

----------------------------------------------------------------------------
(* 12_irf_local_projections.compute_cumulative: the interval bounds *)

\* Estimates and bounds are in thousandths.

\* 1.96 * x for x >= 0
Times196(x) == (196 * x) \div 100

\* HAC standard errors of the rows of a summary
SeHacValues == {300, 400}

\* percentile bounds the bootstrap returns for a horizon; <<>> is (NaN, NaN)
MbbBoundValues == {<<>>, <<-3000, 0>>, <<-3000, 3000>>, <<1500, 2500>>}

\* a row of the summary as compute_irfs writes it (lines 153-165, 262-265):
\* the HAC bounds are beta -/+ 1.96 se, the bootstrap bounds are what
\* moving_block_bootstrap_irf returned
summary_row(h, beta, se, mbb) ==
    [h |-> h, beta |-> beta, se |-> se,
     ci_low_hac |-> beta - Times196(se), ci_high_hac |-> beta + Times196(se),
     mbb_nan |-> mbb = <<>>,
     ci_low_mbb |-> IF mbb = <<>> THEN 0 ELSE mbb[1],
     ci_high_mbb |-> IF mbb = <<>> THEN 0 ELSE mbb[2]]

\* summaries: with the bootstrap columns (with_mbb) or without them
CumSummaries ==
    { [has_mbb |-> TRUE,
       rows |-> [h1 \in 1 .. MaxCumH + 1 |->
                    summary_row(h1 - 1, b[h1], se[h1], m[h1])]] :
        b \in [1 .. MaxCumH + 1 -> {-1000, 2000}],
        se \in [1 .. MaxCumH + 1 -> SeHacValues],
        m \in [1 .. MaxCumH + 1 -> MbbBoundValues] }
    \cup
    { [has_mbb |-> FALSE,
       rows |-> [h1 \in 1 .. MaxCumH + 1 |->
                    summary_row(h1 - 1, b[h1], se[h1], <<>>)]] :
        b \in [1 .. MaxCumH + 1 -> {-1000, 2000}],
        se \in [1 .. MaxCumH + 1 -> SeHacValues] }

RECURSIVE SumSq(_)
SumSq(rows) == IF rows = <<>> THEN 0 ELSE Head(rows).se * Head(rows).se + SumSq(Tail(rows))

RECURSIVE SumField(_, _)
SumField(rows, f) == IF rows = <<>> THEN 0 ELSE Head(rows)[f] + SumField(Tail(rows), f)

\* np.sqrt, rounded down to the thousandth
ISqrt(v) == CHOOSE r \in 0 .. v : r * r <= v /\ v < (r + 1) * (r + 1)

\* lines 291-314: beta_cum, the delta-method bounds beta_low / beta_high and
\* the summed bounds beta_cum_low / beta_cum_high of one H
cumulative_bounds(summary, H) ==
    LET UpTo(r) == r.h <= H
        sub == SelectSeq(summary.rows, UpTo)
        beta_cum == SumBeta(sub)
        se_cum == ISqrt(SumSq(sub))
        use_mbb == summary.has_mbb /\ \A i \in DOMAIN sub : ~sub[i].mbb_nan
    IN  [H |-> H, beta_cum |-> beta_cum,
         beta_low |-> beta_cum - Times196(se_cum),
         beta_high |-> beta_cum + Times196(se_cum),
         from_mbb |-> use_mbb,
         beta_cum_low |-> IF use_mbb THEN SumField(sub, "ci_low_mbb")
                          ELSE SumField(sub, "ci_low_hac"),
         beta_cum_high |-> IF use_mbb THEN SumField(sub, "ci_high_mbb")
                           ELSE SumField(sub, "ci_high_hac")]

CumulativeBounds ==
    /\ cum_pc = "start"
    /\ \E horizons \in CumHorizons :
        cum_out' = [i \in 1 .. Len(horizons) |-> cumulative_bounds(cum_in, horizons[i])]
    /\ cum_pc' = "done"
    /\ UNCHANGED <<panel, cum_in, ecmVars, irfVars, itsVars, variantVars, mbbVars,
                   bwVars>>

InitCum ==
    /\ panel = Panel(0, FALSE, -1, {}, 0)
    /\ cum_in \in CumSummaries
    /\ cum_out = <<>>
    /\ cum_pc = "start"
    /\ VariantIdle
    /\ MbbIdle
    /\ BwIdle
    /\ EcmIdle
    /\ ecm_pc = "idle"
    /\ ecm_in = [winsorized |-> FALSE]
    /\ IrfIdle
    /\ ItsIdle

NextCum == CumulativeBounds

----------------------------------------------------------------------------
(* The components, each analysed from its own initial states *)

Init == InitECM \/ InitIRF \/ InitITS \/ InitVariant \/ InitMbb \/ InitBw \/ InitCum

Next == NextECM \/ NextIRF \/ NextITS \/ NextVariant \/ NextMbb \/ NextBw \/ NextCum

Spec == Init /\ [][Next]_vars


----------------------------------------------------------------------------
(* Properties of the cointegration pipeline *)

BaselineDone == ecm_pc \in {"diag", "latex", "events", "eg_ev", "ecm_ev", "done", "raised"}
EventsDone == ecm_pc = "done"

IsNoCointegration(res) ==
    /\ isnan(res.phi) /\ isnan(res.psi) /\ isnan(res.half_life_days)
    /\ res.n = Int2F(0)

IsConcreteFit(res) == ~isnan(res.phi) /\ ~isnan(res.psi)

IsUndefinedWithCount(res, n) ==
    /\ isnan(res.phi) /\ isnan(res.psi) /\ isnan(res.half_life_days)
    /\ res.n = Int2F(n)

\* the p-value is a number below 0.05
PBelowFivePercent(pv) == isfinite(pv) /\ pv.n * 100 < 5 * pv.d

GateAsClaimed(pv, res) ==
    IF PBelowFivePercent(pv) THEN IsConcreteFit(res) ELSE IsNoCointegration(res)

GateAmended(pv, res, n) ==
    IF ~PBelowFivePercent(pv) THEN IsNoCointegration(res)
    ELSE IF n >= MinEcmRows THEN IsConcreteFit(res) /\ res.n = Int2F(n)
    ELSE IsUndefinedWithCount(res, n)

\* C1 as stated: for each variant, p >= 0.05 (or not finite) gives the
\* no-cointegration record and p < 0.05 gives a concrete fit (phi, psi defined).
C1_GateAsStated ==
    /\ BaselineDone => GateAsClaimed(eg_p, ecm_summary)
    /\ EventsDone => GateAsClaimed(eg_p_ev, ecm_ev)

\* C1 amended: for each variant, p >= 0.05 (or not finite) gives the
\* no-cointegration record; p < 0.05 gives a concrete fit when at least 30 rows
\* are usable and otherwise the undefined record carrying the usable-row count.
C1_GateAmended ==
    /\ BaselineDone =>
        GateAmended(eg_p, ecm_summary, Cardinality(EcmUse(panel, resid_idx)))
    /\ EventsDone =>
        GateAmended(eg_p_ev, ecm_ev, Cardinality(EcmUse(panel, resid_idx_ev)))

\* a finished run whose baseline variant was fitted and whose event variant
\* was gated out
C1_Witness ==
    /\ ecm_pc = "done"
    /\ PBelowFivePercent(eg_p) /\ IsConcreteFit(ecm_summary)
    /\ ~PBelowFivePercent(eg_p_ev) /\ isfinite(eg_p_ev) /\ IsNoCointegration(ecm_ev)

\* C5 as stated: with cointegration detected and fewer than 30 usable rows,
\* estimate_ecm returns the undefined record with the row count and main goes
\* on through the table rendering without raising.
C5_InsufficientDataCompletes ==
    (/\ BaselineDone
     /\ PBelowFivePercent(eg_p)
     /\ Cardinality(EcmUse(panel, resid_idx)) < MinEcmRows)
    => /\ IsUndefinedWithCount(ecm_summary, Cardinality(EcmUse(panel, resid_idx)))
       /\ ecm_exc = "none"

HalfLifeRule(res) ==
    LET defined == ~isnan(res.phi) /\ FGreater(OnePlus(res.phi), Int2F(0))
    IN  /\ ~isnan(res.half_life_days) <=> defined
        /\ defined => res.half_life_days = FDiv(LogHalf, NpLog(OnePlus(res.phi)))
        /\ HalfLifeVariant(res.phi) = res.half_life_days

DegenerateHalfLife(res) ==
    IsConcreteFit(res) /\ ~FGreater(OnePlus(res.phi), Int2F(0))

DegenerateKoyck(res) == ~FLess(res.rho, Int2F(1))

\* C10 as stated: the value reported for a degenerate transform (ECM half-life
\* with 1 + phi <= 0, Koyck long-run effect with rho >= 1) differs from a
\* numeric zero and from the value the insufficient-data and no-cointegration
\* records report for lack of data.
C10_SentinelDistinct ==
    /\ BaselineDone /\ DegenerateHalfLife(ecm_summary) =>
        /\ ecm_summary.half_life_days # Int2F(0)
        /\ ecm_summary.half_life_days # NoCointegrationRecord.half_life_days
        /\ ecm_summary.half_life_days # InsufficientRecord(0).half_life_days
    /\ "koyck" \in DOMAIN its_results /\ DegenerateKoyck(its_results["koyck"]) =>
        /\ its_results["koyck"].long_run_effect # Int2F(0)
        /\ its_results["koyck"].long_run_effect # NoCointegrationRecord.half_life_days
        /\ its_results["koyck"].long_run_effect # InsufficientRecord(0).half_life_days

----------------------------------------------------------------------------
(* Properties of the local-projection component *)

RECURSIVE SumSummaryUpTo(_, _)
\* beta_0 + ... + beta_H over the rows of the summary (rows beyond it count 0)
SumSummaryUpTo(summary, H) ==
    IF H < 0 THEN 0
    ELSE (IF H + 1 <= Len(summary) THEN summary[H + 1].beta ELSE 0)
            + SumSummaryUpTo(summary, H - 1)

CumulativeOver17 ==
    /\ irf_pc = "cum"
    /\ Len(irf_cum) = 2
    /\ irf_cum[1].H = 1 /\ irf_cum[2].H = 7
    /\ Len(irf_summary) = 8

\* C2 as stated: with horizon set {1, 7} on a summary holding h = 0..7, the
\* reported beta_cum equals the h = 1 estimate plus the h = 7 estimate.
C2_SumOfNamedHorizons ==
    CumulativeOver17 =>
        irf_cum[2].beta_cum = irf_summary[2].beta + irf_summary[8].beta

\* C2 amended: for every H of the horizon set, the row of H reports the sum of
\* the point estimates of all horizons h <= H of the summary; for {1, 7} these
\* are beta_0 + beta_1 and beta_0 + ... + beta_7.
C2_SumThroughHorizon ==
    irf_pc = "cum" =>
        \A i \in 1 .. Len(irf_cum) :
            irf_cum[i].beta_cum = SumSummaryUpTo(irf_summary, irf_cum[i].H)

\* horizon set {1, 7} on a full summary where the running sum through 7
\* differs from beta_1 + beta_7
C2_Witness ==
    /\ CumulativeOver17
    /\ irf_cum[1].beta_cum = irf_summary[1].beta + irf_summary[2].beta
    /\ irf_cum[2].beta_cum # irf_summary[2].beta + irf_summary[8].beta

\* C3 as stated: on a panel with the required columns, a horizon whose
\* regression or bootstrap raises does not abort compute_irfs: the sweep ends
\* without an exception and its summary holds a row for every other horizon.
C3_SweepSurvivesFailingHorizon ==
    prepare_frame_asserts(panel) =>
        /\ irf_exc = "none"
        /\ irf_pc \in {"done", "cum"} =>
             Len(irf_summary) + Cardinality({h \in 0 .. irf_in.H :
                 \/ horizon_regression_raises(panel, h)
                 \/ irf_in.with_mbb /\ moving_block_bootstrap_raises(panel, h)})
               = irf_in.H + 1

\* event columns compute_irfs is expected to hand to the regressions: the
\* candidates carried by the prepared frame under their own names
IrfPresentEvents == IrfCandidateEvents \cap df_prep

\* every horizon of the sweep has rows to fit (and to resample)
IrfRowsSuffice ==
    \A h \in 0 .. irf_in.H :
        /\ ~horizon_regression_raises(panel, h)
        /\ irf_in.with_mbb => ~moving_block_bootstrap_raises(panel, h)

\* right-hand side of the ECM without event controls
EcmBaseSpecification ==
    {"ECT_lag1", "d_A_t_clean", "d_D_star", "d_log_base_fee_lag1", "is_weekend", "is_month_end"}

----------------------------------------------------------------------------
(* Properties of the levels engine *)

KoyckRule(res) ==
    /\ FLess(res.rho, Int2F(1)) =>
        /\ res.long_run_effect = FDiv(res.short_run_effect, OneMinus(res.rho))
        /\ isfinite(res.long_run_effect)
    /\ ~FLess(res.rho, Int2F(1)) =>
        /\ isnan(res.long_run_effect)
        /\ isnan(res.long_run_semi_elasticity)

\* C8: estimate_koyck_lag reports long_run_effect = short_run_effect / (1 - rho)
\* exactly when rho < 1; when rho >= 1 the long-run effect and its
\* semi-elasticity are undefined, and the call returns without an exception.
C8_KoyckLongRun ==
    /\ "koyck" \in DOMAIN its_results => KoyckRule(its_results["koyck"])
    /\ (panel.hasD /\ \E i \in 1 .. Len(its_in.plan) : its_in.plan[i] = "koyck")
          => its_exc = "none"

\* the call has returned with rho = 1 and a nonzero short-run effect
C8_Witness ==
    /\ its_pc = "done"
    /\ "koyck" \in DOMAIN its_results
    /\ its_results["koyck"].rho = Int2F(1)
    /\ its_results["koyck"].short_run_effect = Rat(1, 4)
    /\ isnan(its_results["koyck"].long_run_effect)
    /\ its_exc = "none"

\* cells the grid loop attempts
GridCells(max_p, max_q) == ((0 .. max_p) \X (0 .. max_q)) \ {<<0, 0>>}

\* C4 as stated: every attempted cell is recorded with its (p, q), a failing
\* cell does not stop the others, and the selected best model is never a
\* cell whose fit failed, whatever the pattern of failures.
C4_FailedCellNeverBest ==
    "arma_best" \in DOMAIN its_results =>
        /\ {<<its_grid[i].p, its_grid[i].q>> : i \in 1 .. Len(its_grid)}
              = GridCells(its_in.max_p, its_in.max_q)
        /\ its_results["arma_best"].aic # PosInf
        /\ ~isnan(its_results["arma_best"].beta)

\* C6 as stated: on a panel without D_star no entry point raises and each
\* one fits the specification without the demand-factor term: the levels
\* engine and compute_irfs end without an exception, and the Engle-Granger
\* step of the ECM pipeline has rows to work on.
C6_MissingDStarFallsBack ==
    ~panel.hasD =>
        /\ its_exc = "none"
        /\ irf_exc = "none"
        /\ (BaselineDone /\ panel.N > 1) => resid_idx # {} /\ isfinite(eg_p)

----------------------------------------------------------------------------
(* Properties of johansen_tests *)

JohansenDone == ecm_pc \in {"ecm", "diag", "latex", "events", "eg_ev", "ecm_ev", "done", "raised"}

\* rows of the panel with log_base_fee, A_t_clean and D_star all present
CompleteRows == {t \in Rows(panel.N) : t # panel.miss /\ panel.hasD}

FourJohansenRows(rows) ==
    /\ Len(rows) = 4
    /\ {<<rows[i].rank_null, rows[i].stat_type>> : i \in 1 .. 4}
          = {0, 1} \X {"trace", "max-eig"}
    /\ \A i \in 1 .. 4 :
        LET trace == rows[i].stat_type = "trace"
            r == rows[i].rank_null
        IN  /\ rows[i].stat = <<IF trace THEN "lr1" ELSE "lr2", r>>
            /\ rows[i].crit_90 = <<IF trace THEN "cvt" ELSE "cvm", r, 0>>
            /\ rows[i].crit_95 = <<IF trace THEN "cvt" ELSE "cvm", r, 1>>
            /\ rows[i].crit_99 = <<IF trace THEN "cvt" ELSE "cvm", r, 2>>

\* C11: with fewer than 50 complete rows johansen_tests returns the empty
\* result; with 50 or more it returns either the empty result (the test
\* raised) or exactly four rows, trace and max-eigenvalue statistics for ranks
\* 0 and 1 with their 90/95/99% critical values; main goes on in every case.
C11_JohansenResult ==
    JohansenDone =>
        /\ Cardinality(CompleteRows) < 50 => joh = <<>>
        /\ joh # <<>> => FourJohansenRows(joh)

\* a panel of exactly 50 complete rows whose test produced the four rows
C11_Witness ==
    /\ JohansenDone
    /\ Cardinality(CompleteRows) = 50
    /\ FourJohansenRows(joh)

----------------------------------------------------------------------------
(* Properties of the estimator instance *)

DiagnosticNames == {"ljung_box", "white_test", "durbin_watson"}

\* the six specifications of the levels engine, by the key of their result
SpecificationKeys ==
    {"main_effect", "distributed_lags", "koyck", "arima", "fgls", "differences"}

\* diagnostics held for the specification stored under key: the entries of
\* self.diagnostics computed from its residuals, and the diagnostic fields of
\* its own result
AttachedDiagnostics(key) ==
    {d \in DOMAIN its_diag : its_diag[d] = key}
        \cup (DOMAIN its_results[key] \cap DiagnosticNames)

\* C12 as stated: once a specification has been estimated, its Ljung-Box,
\* heteroskedasticity and Durbin-Watson diagnostics are held for it, and they
\* stay held whatever is estimated afterwards.
C12_DiagnosticsAttached ==
    \A key \in DOMAIN its_results \cap SpecificationKeys :
        AttachedDiagnostics(key) = DiagnosticNames

\* the columns of self.data of a fresh instance
FreshData == prepare_data(panel)

\* rows an operation uses when it is the first call on a fresh instance
FreshRows(key) ==
    CASE key = "main_effect"      -> DesignRows(panel)
      [] key = "koyck"            -> DropnaRows(panel, FreshData \cup {"log_base_fee_lag1"})
      [] key = "distributed_lags" -> DropnaRows(panel, FreshData \cup LagCols)
      [] key = "differences"      -> DropnaRows(panel, FreshData \cup DiffCols)

\* C13 as stated: whatever was called before on the instance, each operation
\* uses the rows (n_obs) it uses as the first call on a fresh instance.
C13_CallOrderIndependent ==
    \A key \in DOMAIN its_results
                 \cap {"main_effect", "koyck", "distributed_lags", "differences"} :
        its_results[key].n_obs = Cardinality(FreshRows(key))


----------------------------------------------------------------------------
(* Date alignment of the error-correction term *)

VariantDone == variant_pc \in {"done", "raised"}

\* C14: the value attached as ECT_lag1 to a row is the long-run residual of
\* the immediately preceding date, and is missing when that date has no
\* residual; it is never the residual of another date.
C14_ResidualDateAligned ==
    VariantDone =>
        \A t \in DOMAIN variant_out.ECT_lag1 :
            variant_out.ECT_lag1[t] =
                IF (t - 1) \in DOMAIN variant_out.ECT_lag1 THEN t - 1 ELSE -1

----------------------------------------------------------------------------
(* Regime indicators of the analysis frames *)

FramePrepared == irf_pc \notin {"idle", "start"} /\ df_prep # {}
DataPrepared == its_pc \notin {"idle", "new"}
RegimesBuilt == ecm_pc \notin {"idle", "start", "eg_full"}

AtMostOne(S) == Cardinality(S) <= 1

\* C15: in the frame of each component, at every row at most one regime
\* indicator is 1, whether the panel carries the regime columns or not.
C15_RegimesExclusive ==
    \A t \in Rows(panel.N) :
        /\ FramePrepared => AtMostOne(prepare_frame_regimes(panel, t))
        /\ DataPrepared => AtMostOne(prepare_data_regimes(panel, t))
        /\ RegimesBuilt => AtMostOne(main_regimes(panel, t))

\* the frames whose indicators are constructed by the levels engine or the
\* cointegration main, or copied from a panel with exclusive columns
RegimesExclusiveWhereConstructed ==
    \A t \in Rows(panel.N) :
        /\ (DataPrepared /\ panel.regime # "cumulative")
                => AtMostOne(prepare_data_regimes(panel, t))
        /\ (RegimesBuilt /\ panel.regime # "cumulative")
                => AtMostOne(main_regimes(panel, t))
        /\ (FramePrepared /\ panel.regime = "exclusive")
                => AtMostOne(prepare_frame_regimes(panel, t))

----------------------------------------------------------------------------
(* HAC bandwidth across the horizon sweep *)

SweepStarted == irf_pc \in {"sweep", "done"}

\* the rows compute_irfs has collected
SweepRows == {irf_rows[i] : i \in DOMAIN irf_rows}

\* usable rows of the h = 0 sample
N0 == Cardinality(HorizonRows(panel, 0))

\* floor(4 (n0/100)^(2/9)) of the h = 0 sample
AutomaticBase == AutoBandwidth(N0)

\* bandwidth the h = 0 regression run on its own reports
StandaloneZero == IF AutomaticBase + 1 <= N0 - 1 THEN AutomaticBase + 1 ELSE N0 - 1

BandwidthFrom(base, r) ==
    IF base + (IF r.h >= 1 THEN r.h ELSE 1) <= r.n - 1
    THEN base + (IF r.h >= 1 THEN r.h ELSE 1)
    ELSE r.n - 1

\* C16 as stated: at every horizon the bandwidth is
\* min(base + max(h,1), n_h - 1) with base the automatic bandwidth of the
\* h = 0 sample.
C16_BandwidthAsStated ==
    SweepStarted =>
        \A r \in SweepRows : r.bandwidth = BandwidthFrom(AutomaticBase, r)

\* C16 amended: the base is computed once, as the bandwidth the h = 0
\* regression run on its own reports, min(automatic + 1, n_0 - 1), and every
\* horizon uses min(base + max(h,1), n_h - 1); the h = 0 fit of the sweep
\* never uses a smaller bandwidth than the h = 0 fit run on its own.
C16_BandwidthAmended ==
    SweepStarted =>
        /\ hac_base = StandaloneZero
        /\ \A r \in SweepRows :
            /\ r.bandwidth = BandwidthFrom(StandaloneZero, r)
            /\ r.h = 0 => r.bandwidth >= StandaloneZero

\* a finished sweep with a horizon h >= 1 whose bandwidth is base + h, below
\* the cap, and whose h = 0 bandwidth exceeds that of the fit run on its own
C16_Witness ==
    /\ irf_pc = "done"
    /\ \E r \in SweepRows : r.h >= 1 /\ r.bandwidth = hac_base + r.h /\ r.bandwidth < r.n - 1
    /\ \E r \in SweepRows : r.h = 0 /\ r.bandwidth > StandaloneZero

----------------------------------------------------------------------------
(* Sample of the horizon-h regression *)

\* C17: on a complete panel of N rows, the horizon-h fit (h < N - 1) uses
\* exactly the rows 1 .. N-1-h, so n = N-1-h: the rows whose lead or
\* difference is undefined are dropped, none is imputed.
C17_HorizonSample ==
    SweepStarted =>
        \A r \in SweepRows :
            r.h < panel.N - 1 =>
                /\ r.rows = 1 .. (panel.N - 1 - r.h)
                /\ r.n = panel.N - 1 - r.h

\* a finished sweep on a complete panel with a horizon h >= 1 that lost h
\* trailing rows and kept at least two
C17_Witness ==
    /\ irf_pc = "done"
    /\ panel.miss = -1
    /\ \E r \in SweepRows : r.h >= 1 /\ r.n >= 2 /\ r.n = panel.N - 1 - r.h

----------------------------------------------------------------------------
(* The moving-block bootstrap interval *)

MbbOuts == {mbb_outs[i] : i \in DOMAIN mbb_outs}

\* coefficients of the replications that produced one
Successful(out) == SelectSeq(out.betas, IsOk)

RequiredReplications == IF mbb_in.B \div 2 > 30 THEN mbb_in.B \div 2 ELSE 30

\* C18: the interval is undefined whenever fewer than max(30, floor(B/2))
\* replications produced a coefficient; otherwise its bounds are the 2.5 and
\* 97.5 percentiles of the coefficients of the successful replications only.
C18_UndefinedBelowThreshold ==
    \A out \in MbbOuts :
        IF Len(Successful(out)) < RequiredReplications
        THEN ~out.ci.defined
        ELSE /\ out.ci.defined
             /\ out.ci.lo = Percentile(Successful(out), 25)
             /\ out.ci.hi = Percentile(Successful(out), 975)

\* a call that returned an interval from exactly the required number of
\* successful replications, some replications having failed
C18_Witness ==
    \E out \in MbbOuts :
        /\ out.ci.defined
        /\ Len(Successful(out)) = RequiredReplications
        /\ Len(Successful(out)) < Len(out.betas)
        /\ out.ci.lo < out.ci.hi

\* C19: two calls with the same frame, horizon, B, block length and seed
\* draw the same block starts and return the same bounds, whatever was
\* called before them.
C19_SameSeedSameBounds ==
    \A a \in MbbOuts : \A b \in MbbOuts :
        a.h = b.h => a.starts = b.starts /\ a.ci = b.ci

\* a script that called the bootstrap for horizon 0, then for horizon 6,
\* then for horizon 0 again, each call returning an interval
C19_Witness ==
    /\ mbb_pc = "done"
    /\ Len(mbb_outs) = 3
    /\ mbb_outs[1].h = mbb_outs[3].h
    /\ mbb_outs[2].h # mbb_outs[1].h
    /\ mbb_outs[1].starts # mbb_outs[2].starts
    /\ \A i \in 1 .. 3 : mbb_outs[i].ci.defined /\ mbb_outs[i].ci.lo < mbb_outs[i].ci.hi

----------------------------------------------------------------------------
(* Monotonicity of the automatic bandwidth *)

\* C20: the automatic bandwidth floor(4 (n/100)^(2/9)) is non-decreasing in
\* the sample size: the fit on n1 <= n2 rows never uses the larger bandwidth.
C20_BandwidthMonotone ==
    bw_pc = "done" => bw_out[1] <= bw_out[2]

\* two fits, the smaller below 100 rows and the larger with at least 100,
\* whose bandwidths are 3 and 4
C20_Witness ==
    /\ bw_pc = "done"
    /\ bw_in[1] < 100 /\ bw_in[2] >= 100
    /\ bw_out = <<3, 4>>

----------------------------------------------------------------------------
(* Feasible GLS with rho = 0 *)

FglsDone == "fgls" \in DOMAIN its_results

----------------------------------------------------------------------------
(* Semi-elasticity at beta = 0 *)

MainDone == "main_effect" \in DOMAIN its_results

\* C22: when the treatment coefficient is 0 the main fit reports a
\* semi-elasticity of exactly 0 and a standard error of exactly 10 times the
\* standard error of the coefficient.
C22_ZeroBeta ==
    (MainDone /\ its_results["main_effect"].beta = Rat(0, 1)) =>
        /\ its_results["main_effect"].semi_elasticity = Rat(0, 1)
        /\ its_results["main_effect"].semi_se =
                Rat(10 * its_results["main_effect"].se.n, its_results["main_effect"].se.d)

\* a main fit with beta = 0 and standard error 1/8: semi_se is 5/4
C22_Witness ==
    /\ MainDone
    /\ its_results["main_effect"].beta = Rat(0, 1)
    /\ its_results["main_effect"].se = Rat(1, 8)
    /\ its_results["main_effect"].semi_se = Rat(5, 4)

----------------------------------------------------------------------------
(* Shape of the bootstrap resample *)

\* C23: every replication resamples exactly n_eff row positions, all of them
\* in 0 .. n_eff - 1, made of blocks of block_len consecutive rows (the last
\* one possibly cut), for every frame, also one with fewer usable rows than
\* a block.
C23_ResampleShape ==
    /\ mbb_pc # "raised"
    /\ (mbb_pc = "loop" /\ mbb_b > 0) =>
        /\ Len(mbb_indices) = MbbNEff
        /\ \A i \in DOMAIN mbb_indices :
            /\ mbb_indices[i] >= 0 /\ mbb_indices[i] < MbbNEff
            /\ (i > 1 /\ (i - 1) % BlockLen(panel.N) # 0)
                    => mbb_indices[i] = mbb_indices[i - 1] + 1

\* the shape of the resamples of the calls that do not raise
ResampleShapeWhenDrawn ==
    (mbb_pc = "loop" /\ mbb_b > 0) =>
        /\ Len(mbb_indices) = MbbNEff
        /\ \A i \in DOMAIN mbb_indices :
            /\ mbb_indices[i] >= 0 /\ mbb_indices[i] < MbbNEff
            /\ (i > 1 /\ (i - 1) % BlockLen(panel.N) # 0)
                    => mbb_indices[i] = mbb_indices[i - 1] + 1

----------------------------------------------------------------------------
(* The ECM is fitted only under cointegration *)

DiagnosticsDone == ecm_pc \in {"latex", "events", "eg_ev", "ecm_ev", "done", "raised"}

\* C24: when the full-sample Engle-Granger test does not detect
\* cointegration, no error-correction regression is fitted at any later step
\* of the run: neither the baseline estimate nor the residual-diagnostics
\* step fits one.
C24_NoEcmWithoutCointegration ==
    (DiagnosticsDone /\ ~PBelowFivePercent(eg_p)) =>
        /\ ecm_summary = NoCointegrationRecord
        /\ ~ecm_diag.refit

----------------------------------------------------------------------------
(* Sample of the distributed-lag specification *)

\* the first call on the instance is estimate_distributed_lags and it returned
DistributedLagsFirst ==
    /\ its_pc \in {"call", "done", "raised"}
    /\ Len(its_in.plan) >= 1
    /\ its_in.plan[1] = "dl"
    /\ "distributed_lags" \in DOMAIN its_results

\* rows at which the outcome, the treatment, its lags 1 and 7 and D_star are
\* all present (the regime and calendar controls are never missing)
LagModelRows ==
    {t \in Rows(panel.N) :
        /\ t >= 7
        /\ panel.miss \notin {t, t - 1, t - 7}
        /\ panel.hasD}

\* C25: estimate_distributed_lags fits on exactly the rows at which the
\* outcome, the treatment, every requested lag and the controls are defined,
\* drops no other row, and reports long_run_effect as the contemporaneous
\* coefficient plus the coefficients of all lags.
C25_DistributedLagRows ==
    DistributedLagsFirst =>
        LET r == its_results["distributed_lags"]
        IN  /\ r.n_obs = Cardinality(LagModelRows)
            /\ r.long_run_effect =
                    FAdd(r.contemporaneous, FAdd(r.lags[1], r.lags[2]))

----------------------------------------------------------------------------
(* The summed bounds of compute_cumulative *)

\* C26: for every summary and every H, the interval built by summing the
\* per-horizon bounds contains beta_cum and contains the delta-method
\* interval beta_cum -/+ 1.96 sqrt(sum of the variances), whether the summed
\* bounds are the HAC ones or the bootstrap ones.
C26_SummedBoundsContain ==
    cum_pc = "done" =>
        \A i \in DOMAIN cum_out :
            LET r == cum_out[i]
            IN  /\ r.beta_cum_low <= r.beta_cum /\ r.beta_cum <= r.beta_cum_high
                /\ r.beta_cum_low <= r.beta_low /\ r.beta_high <= r.beta_cum_high

\* the same containment when the summed bounds are the HAC ones
SummedHacBoundsContain ==
    cum_pc = "done" =>
        \A i \in DOMAIN cum_out :
            LET r == cum_out[i]
            IN  ~r.from_mbb =>
                    /\ r.beta_cum_low <= r.beta_cum /\ r.beta_cum <= r.beta_cum_high
                    /\ r.beta_cum_low <= r.beta_low /\ r.beta_high <= r.beta_cum_high

----------------------------------------------------------------------------
(* Range of the reported half-life *)

PositiveDays(x) == isfinite(x) /\ FGreater(x, Int2F(0))

\* C30: a half-life that estimate_ecm reports as defined is a finite,
\* strictly positive number of days, for every phi with 1 + phi > 0
\* (phi = 0 and phi > 0 included).
C30_HalfLifePositive ==
    /\ (BaselineDone /\ ~isnan(ecm_summary.half_life_days))
            => PositiveDays(ecm_summary.half_life_days)
    /\ (EventsDone /\ ~isnan(ecm_ev.half_life_days))
            => PositiveDays(ecm_ev.half_life_days)

\* the same for the adjustment speeds -1 < phi < 0
HalfLifePositiveWhenAdjusting ==
    (BaselineDone /\ ~isnan(ecm_summary.half_life_days)
        /\ FLess(ecm_summary.phi, Int2F(0)))
            => PositiveDays(ecm_summary.half_life_days)

----------------------------------------------------------------------------
(* Sample size reported by estimate_ecm *)

\* the record res is the one estimate_ecm returned for the residual labels
\* resid, and the sample size it reports is the row count of its regression
ReportsFittedRows(res, resid) ==
    IsConcreteFit(res) => res.n = Int2F(Cardinality(EcmFitRows(panel, resid)))

\* C27: the sample size n that estimate_ecm reports, derives the HAC
\* bandwidth from and compares with the minimum of 30 is the number of rows
\* of the fitted ECM regression.
C27_ReportedRowsAreFitted ==
    /\ BaselineDone => ReportsFittedRows(ecm_summary, resid_idx)
    /\ EventsDone => ReportsFittedRows(ecm_ev, resid_idx_ev)

----------------------------------------------------------------------------
(* Differences and levels of the ECM frame *)

\* in the frame the record res was fitted on, each difference is the
\* difference of the levels of that frame
DiffsMatchLevels(res, resid) ==
    IsConcreteFit(res) =>
        \A t \in EcmFitRows(panel, resid) :
            \A c \in {"log_base_fee", "A_t_clean", "D_star"} :
                FrameDiff(panel, ecm_in.winsorized, c, t) =
                    LoadedLevel(panel, ecm_in.winsorized, c, t)
                        - LoadedLevel(panel, ecm_in.winsorized, c, t - 1)

\* C28: in the frame estimate_ecm fits on, d_log_base_fee, d_A_t_clean and
\* d_D_star at row t are the level column of the same frame at row t minus
\* its value at row t - 1, with winsorization off and with it on.
C28_DiffsOfFrameLevels ==
    /\ BaselineDone => DiffsMatchLevels(ecm_summary, resid_idx)
    /\ EventsDone => DiffsMatchLevels(ecm_ev, resid_idx_ev)

\* the same for the runs on the raw series
DiffsOfFrameLevelsRaw ==
    (BaselineDone /\ ~ecm_in.winsorized) => DiffsMatchLevels(ecm_summary, resid_idx)

----------------------------------------------------------------------------
(* Bootstrap and point-estimate regressions *)

\* C29: at every horizon of compute_irfs for which the bootstrap is run, the
\* regression refitted on the resamples has the outcome column and the
\* regressor set of the point-estimate regression of that horizon, event
\* controls included.
C29_BootstrapSameRegression ==
    \A i \in DOMAIN irf_rows :
        irf_rows[i].mbb # NoBootstrap =>
            /\ irf_rows[i].mbb.outcome = irf_rows[i].outcome
            /\ irf_rows[i].mbb.regressors = irf_rows[i].controls

\* the same for the sweeps whose point-estimate regression has no event control
BootstrapSameWithoutEvents ==
    \A i \in DOMAIN irf_rows :
        (irf_rows[i].mbb # NoBootstrap /\ irf_extra = {}) =>
            /\ irf_rows[i].mbb.outcome = irf_rows[i].outcome
            /\ irf_rows[i].mbb.regressors = irf_rows[i].controls

====
